---- MODULE Spec2Model ----
(***************************************************************************)
(* A model of the Odyssey hierarchical RAG system:                         *)
(*   - HTMLHierarchicalProcessor  (src/src/html_hierarchical_processor.py) *)
(*   - AdvancedDataProcessor      (src/src/data_processor.py)              *)
(*   - SimpleHierarchicalRetriever(src/src/simple_hierarchical_retriever.py)*)
(*   - EmbeddingRetriever         (src/src/embedding_retriever.py)         *)
(*   - HierarchicalRetriever      (src/src/hierarchical_retriever.py)      *)
(*   - OdysseyHierarchicalPipeline(src/src/odyssey_hierarchical_pipeline.py)*)
(*                                                                         *)
(* Each component has its own initial predicate, next-state relation and   *)
(* specification; the variable `component` says which one a behaviour is   *)
(* about, and the variables of the other components keep their idle value. *)
(*                                                                         *)
(* Texts are abstracted to what the code reads of them: the class of the   *)
(* leading token (what the regular expressions match on), the number of    *)
(* whitespace-separated words, the number of characters and whether a      *)
(* colon occurs.  An assembled text ("\n\n".join) is the sequence of its   *)
(* parts.  Similarities and thresholds are integers in units of 1/1000.    *)
(***************************************************************************)
EXTENDS Integers, Sequences, FiniteSets, TLC

VARIABLES
    component,          \* which component this behaviour exercises
    \* ---- HTMLHierarchicalProcessor
    doc,                \* the elements find_all yields for the file at html_path
    pos,                \* number of elements the running process_html has consumed
    runs,               \* number of process_html calls started on this processor
    hp_pc,              \* "idle" | "building" | "done"
    nodes,              \* self.nodes, in dict insertion order
    root_nodes,         \* self.root_nodes
    current_hierarchy,  \* local current_hierarchy of process_html
    node_id,            \* local node_id of process_html
    chunks,             \* last list returned by create_semantic_chunks
    candidates,         \* the list `chunks` of create_semantic_chunks before dedup
    \* ---- AdvancedDataProcessor
    adp_pc,             \* "running" | "raised"
    adp_nodes,          \* self.nodes
    adp_root_nodes,     \* self.root_nodes
    adp_hierarchy,      \* current_hierarchy, a list of 5 slots (index 0..4)
    adp_node_id,        \* node_id
    \* ---- SimpleHierarchicalRetriever
    index,              \* self.index: None, or <<ntotal>>, the number of vectors it holds
    sr_chunks,          \* self.chunks
    chunk_map,          \* self.chunk_map: chunk_id -> chunk
    parent_map,         \* self.parent_map: chunk_id -> parent_id
    child_map,          \* self.child_map: parent_id -> list of chunk_id
    builds,             \* number of create_embeddings calls made
    sr_call,            \* arguments and search result of the last retrieve_with_context
    results,            \* list returned by the last retrieve_with_context
    sr_outcome,         \* "" | "returned" | "raised": how the last call on the retriever ended
    \* ---- EmbeddingRetriever
    er_index,           \* self.index: None, or <<ntotal>>
    er_chunks,          \* self.chunks
    er_call,            \* arguments and outcome of the last retrieve
    er_results,         \* list returned by the last retrieve
    \* ---- HierarchicalRetriever
    hr_chunks,          \* self.chunks
    level_indices,      \* self.level_indices: level -> the chunks of that level's index
    hr_call,            \* arguments, candidate lists and outcome of the last hierarchical_retrieve
    hr_results,         \* list returned by the last hierarchical_retrieve
    \* ---- OdysseyHierarchicalPipeline
    pl_pc,              \* "idle" | "answered" | "parametrized"
    pl_question,        \* the question of the last answer_question, a tuple of characters
    pl_question_type,   \* the type _analyze_question returned, or the one passed in
    matched,            \* the set member on which _analyze_question returned
    pl_args,            \* k and threshold of the last call
    retrieval_kwargs,   \* the dict _get_retrieval_kwargs returned
    \* ---- the HTTP API (src/main.py); the retriever variables above hold the
    \* ---- retriever of the installed pipeline
    _pipeline,          \* the global _pipeline: None, or <<the chunks of the pipeline>>
    api_request,        \* the request being answered, None when there is none
    api_response,       \* the response to it
    \* ---- concurrent queries on one built retriever
    sr_threads,         \* per thread: the locals of its retrieve_with_context call
    hr_threads,         \* per thread: the locals of its hierarchical_retrieve call
    built,              \* None, or <<the retriever's state when its build completed>>
    \* ---- save_index / load_index of a SimpleHierarchicalRetriever
    st_pc,              \* "original" | "saved" | "probed" | "reloaded" | "compared"
    files,              \* the files at index_path, chunks_path and hierarchy_path
    saved_maps,         \* None, or <<parent_map and child_map of the retriever saved>>
    probe,              \* None, or <<the probe call and what the saved retriever returned>>
    actual,             \* None, or <<what the reloaded retriever returned for the probe>>
    \* ---- a document taken from HTML to retrieval
    document,           \* None, or <<the elements of the document processed>>
    \* ---- AdvancedDataProcessor.process_pdf
    pdf_pc,             \* "idle" | "running" | "done"
    pdf_nodes,          \* the local list `nodes`, which becomes self.nodes
    pdf_root_nodes,     \* self.root_nodes
    pdf_hierarchy,      \* current_hierarchy, a list of 5 slots (index 0..4)
    pdf_node_id,        \* node_id
    current_text,       \* number of lines in the local current_text
    pdf_read,           \* number of lines and page ends read so far
    \* ---- _collect_subtree_text on a built registry
    rollup,             \* None, or <<the registry, the arguments and the text returned>>
    \* ---- HierarchicalRetriever.enrich_with_hierarchy, its ancestor walk step by step
    walk                \* None, or <<the chunk_map, the chunk, the locals of the call and
                        \* pc: "walking" | "looping" | "returned">>

hpVars  == <<doc, pos, runs, hp_pc, nodes, root_nodes, current_hierarchy, node_id,
             chunks, candidates>>
adpVars == <<adp_pc, adp_nodes, adp_root_nodes, adp_hierarchy, adp_node_id>>
srVars  == <<index, sr_chunks, chunk_map, parent_map, child_map, builds, sr_call, results,
             sr_outcome>>
erVars  == <<er_index, er_chunks, er_call, er_results>>
hrVars  == <<hr_chunks, level_indices, hr_call, hr_results>>
plVars  == <<pl_pc, pl_question, pl_question_type, matched, pl_args, retrieval_kwargs>>
apiVars == <<_pipeline, api_request, api_response>>
ccVars  == <<sr_threads, hr_threads, built>>
stVars  == <<st_pc, files, saved_maps, probe, actual>>
e2eVars == <<document>>
ruVars  == <<rollup>>
wkVars  == <<walk>>
pdfVars == <<pdf_pc, pdf_nodes, pdf_root_nodes, pdf_hierarchy, pdf_node_id, current_text,
             pdf_read>>
vars    == <<component, hpVars, adpVars, srVars, erVars, hrVars, plVars, apiVars, ccVars, stVars, e2eVars,
             pdfVars, ruVars, wkVars>>
notHP   == <<adpVars, srVars, erVars, hrVars, plVars, apiVars, ccVars, stVars, e2eVars, pdfVars,
             ruVars, wkVars>>
notADP  == <<hpVars, srVars, erVars, hrVars, plVars, apiVars, ccVars, stVars, e2eVars, pdfVars,
             ruVars, wkVars>>
notSR   == <<hpVars, adpVars, erVars, hrVars, plVars, apiVars, ccVars, stVars, e2eVars, pdfVars,
             ruVars, wkVars>>
notER   == <<hpVars, adpVars, srVars, hrVars, plVars, apiVars, ccVars, stVars, e2eVars, pdfVars,
             ruVars, wkVars>>
notHR   == <<hpVars, adpVars, srVars, erVars, plVars, apiVars, ccVars, stVars, e2eVars, pdfVars,
             ruVars, wkVars>>
notPL   == <<hpVars, adpVars, srVars, erVars, hrVars, apiVars, ccVars, stVars, e2eVars, pdfVars,
             ruVars, wkVars>>
\* the API keeps its pipeline's retriever in srVars
notAPI  == <<hpVars, adpVars, erVars, hrVars, plVars, ccVars, stVars, e2eVars, pdfVars,
             ruVars, wkVars>>
notPDF  == <<hpVars, adpVars, srVars, erVars, hrVars, plVars, apiVars, ccVars, stVars,
             e2eVars,
             ruVars, wkVars>>
notWK   == <<hpVars, adpVars, srVars, erVars, hrVars, plVars, apiVars, ccVars, stVars,
             e2eVars, pdfVars, ruVars>>
notRU   == <<hpVars, adpVars, srVars, erVars, hrVars, plVars, apiVars, ccVars, stVars,
             e2eVars, pdfVars, wkVars>>
\* the document is indexed by the retriever of srVars
notE2E  == <<hpVars, adpVars, erVars, hrVars, plVars, apiVars, ccVars, stVars, pdfVars,
             ruVars, wkVars>>
\* save_index and load_index act on the retriever of srVars
notST   == <<hpVars, adpVars, erVars, hrVars, plVars, apiVars, ccVars, e2eVars, pdfVars,
             ruVars, wkVars>>
\* concurrent queries run on the retrievers of srVars and hrVars
notCC   == <<hpVars, adpVars, erVars, plVars, apiVars, stVars, e2eVars, pdfVars,
             ruVars, wkVars>>

\* ------------------------------------------------------------------ bounds
\* Longest element stream of a document.
MaxSegments == 4
\* Number of times process_html is called on one processor.
MaxRuns == 2

\* ------------------------------------------------------------- sequences
None == <<>>

RECURSIVE SumSeq(_)
SumSeq(s) == IF s = <<>> THEN 0 ELSE Head(s) + SumSeq(Tail(s))

RECURSIVE SeqsUpTo(_, _)
SeqsUpTo(S, n) ==
    IF n = 0 THEN {<<>>}
    ELSE LET shorter == SeqsUpTo(S, n - 1)
         IN  shorter \cup {Append(s, x) : s \in {t \in shorter : Len(t) = n - 1}, x \in S}

Range(s) == {s[i] : i \in 1..Len(s)}

Prefix(s, n) == IF Len(s) <= n THEN s ELSE SubSeq(s, 1, n)

\* --------------------------------------------------------------- texts
\* Leading-token classes of an element's text and the representative texts.
\*   "BOOK I"  matches  ^BOOK\s+([IVXLCDM]+)
\*   "1."      matches  ^\d+\.
\*   "A."      matches  ^[A-Z]\.                   only
\*   "I."      matches  ^[IVXLCDM]+\.  and  ^[A-Z]\.
\*   "plain"   matches none of the patterns
T(head, words, chars, colon) ==
    [head |-> head, words |-> words, chars |-> chars, colon |-> colon]

Segments ==
    { T("BOOK I", 2, 6, FALSE),      \* a book header
      T("1.", 3, 14, FALSE),         \* a numbered section header
      T("A.", 3, 14, FALSE),         \* a lettered header
      T("plain", 12, 70, TRUE),      \* short content with a colon
      T("plain", 35, 200, FALSE),    \* a paragraph
      T("plain", 60, 340, FALSE),    \* a long paragraph
      T("plain", 5, 30, FALSE) }     \* a few words

\* len(text.split()) and len(text) of an assembled text "\n\n".join(parts)
WordCount(text) == SumSeq([i \in 1..Len(text) |-> text[i].words])
CharLen(text) ==
    IF text = <<>> THEN 0
    ELSE SumSeq([i \in 1..Len(text) |-> text[i].chars]) + 2 * (Len(text) - 1)

\* -------------------------------------------- HTMLHierarchicalProcessor
\* self.book_patterns / self.section_patterns: (heads the pattern matches, level)
book_patterns ==
    << [heads |-> {"BOOK I"},    level |-> 1],
       [heads |-> {"Book I"},    level |-> 1],
       [heads |-> {"BOOK 1"},    level |-> 1],
       [heads |-> {"CHAPTER I"}, level |-> 1],
       [heads |-> {"Chapter I"}, level |-> 1] >>

section_patterns ==
    << [heads |-> {"I.", "IV."},  level |-> 2],
       [heads |-> {"1."},         level |-> 2],
       [heads |-> {"A.", "I."},   level |-> 3] >>

\* for pattern, level in patterns: if re.match(...): return match.group(0), level
\* return None, 0
RECURSIVE FirstMatch(_, _, _)
FirstMatch(patterns, text, i) ==
    IF i > Len(patterns) THEN [match |-> None, level |-> 0]
    ELSE IF text.head \in patterns[i].heads
         THEN [match |-> <<text.head>>, level |-> patterns[i].level]
         ELSE FirstMatch(patterns, text, i + 1)

_identify_book_chapter(text) == FirstMatch(book_patterns, text, 1)
_identify_section(text) == FirstMatch(section_patterns, text, 1)

\* the registry self.nodes: a dict, kept as the sequence of its values in
\* insertion order (assigning to an existing key keeps the key's position)
HasNode(reg, id) == \E i \in 1..Len(reg) : reg[i].id = id
IndexOfNode(reg, id) == CHOOSE i \in 1..Len(reg) : reg[i].id = id
NodeOf(reg, id) == reg[IndexOfNode(reg, id)]

\* self.nodes[node.id] = node
PutNode(reg, node) ==
    IF HasNode(reg, node.id)
    THEN [reg EXCEPT ![IndexOfNode(reg, node.id)] = node]
    ELSE Append(reg, node)

\* AddToParent putting the new child in front of the parent's list
AddToParent_Prepending(reg, node) ==
    IF node.parent_id # None /\ HasNode(reg, node.parent_id)
    THEN [reg EXCEPT ![IndexOfNode(reg, node.parent_id)].children_ids =
              <<node.id>> \o @]
    ELSE reg

\* if node.parent_id and node.parent_id in self.nodes:
\*     self.nodes[node.parent_id].children_ids.append(node.id)
AddToParent(reg, node) ==
    IF node.parent_id # None /\ HasNode(reg, node.parent_id)
    THEN [reg EXCEPT ![IndexOfNode(reg, node.parent_id)].children_ids =
              Append(@, node.id)]
    ELSE reg

DocumentNode(id, text, level, parent_id, type) ==
    [id |-> id, text |-> text, level |-> level, parent_id |-> parent_id,
     children_ids |-> <<>>, type |-> type]

NoHierarchy == [book |-> None, section |-> None, subsection |-> None]

\* process_html, up to the loop: a new local hierarchy and node counter; the
\* registry and the root list are the processor's and are not reset.
StartProcessHtml ==
    /\ component = "html"
    /\ hp_pc \in {"idle", "done"}
    /\ runs < MaxRuns
    /\ runs' = runs + 1
    /\ hp_pc' = "building"
    /\ pos' = 0
    /\ node_id' = 0
    /\ current_hierarchy' = NoHierarchy
    /\ UNCHANGED <<component, doc, nodes, root_nodes, chunks, candidates, notHP>>

\* The state process_html works on: the processor's registry and root list and
\* the call's local hierarchy and node counter.
BuildState(reg, roots, hierarchy, n) ==
    [nodes |-> reg, root_nodes |-> roots, current_hierarchy |-> hierarchy, node_id |-> n]

\* BookStep with the new root put in front of the root list
BookStep_RootPrepended(st, text) ==
    LET book_node == DocumentNode(<<"book", st.node_id>>, text, 1, None, "book")
    IN  BuildState(PutNode(st.nodes, book_node),
                   <<book_node.id>> \o st.root_nodes,
                   [book |-> book_node.id, section |-> None, subsection |-> None],
                   st.node_id + 1)

\* BookStep leaving the section and subsection slots as they were
BookStep_KeepsDeeper(st, text) ==
    LET book_node == DocumentNode(<<"book", st.node_id>>, text, 1, None, "book")
    IN  BuildState(PutNode(st.nodes, book_node),
                   Append(st.root_nodes, book_node.id),
                   [st.current_hierarchy EXCEPT !.book = book_node.id],
                   st.node_id + 1)

\* book branch of the loop body
BookStep(st, text) ==
    LET book_node == DocumentNode(<<"book", st.node_id>>, text, 1, None, "book")
    IN  BuildState(PutNode(st.nodes, book_node),
                   Append(st.root_nodes, book_node.id),
                   [book |-> book_node.id, section |-> None, subsection |-> None],
                   st.node_id + 1)

\* SectionStep taking the parent from the section slot instead of the book slot
SectionStep_ParentFromSectionSlot(st, text) ==
    LET section_node ==
            DocumentNode(<<"section", st.node_id>>, text, 2,
                         st.current_hierarchy.section, "section")
    IN  BuildState(AddToParent(PutNode(st.nodes, section_node), section_node),
                   st.root_nodes,
                   [st.current_hierarchy EXCEPT !.section = section_node.id,
                                                !.subsection = None],
                   st.node_id + 1)

\* section branch of the loop body
SectionStep(st, text) ==
    LET section_node ==
            DocumentNode(<<"section", st.node_id>>, text, 2,
                         st.current_hierarchy.book, "section")
    IN  BuildState(AddToParent(PutNode(st.nodes, section_node), section_node),
                   st.root_nodes,
                   [st.current_hierarchy EXCEPT !.section = section_node.id,
                                                !.subsection = None],
                   st.node_id + 1)

\* subsection branch: a short text with a colon directly under a section
SubsectionStep(st, text) ==
    LET subsection_node ==
            DocumentNode(<<"subsection", st.node_id>>, text, 3,
                         st.current_hierarchy.section, "subsection")
    IN  BuildState(AddToParent(PutNode(st.nodes, subsection_node), subsection_node),
                   st.root_nodes,
                   [st.current_hierarchy EXCEPT !.subsection = subsection_node.id],
                   st.node_id + 1)

\* paragraph branch
ParagraphStep(st, text, parent_id) ==
    LET para_node ==
            DocumentNode(<<"para", st.node_id>>, text, 4, parent_id, "paragraph")
    IN  BuildState(AddToParent(PutNode(st.nodes, para_node), para_node),
                   st.root_nodes, st.current_hierarchy, st.node_id + 1)

\* ElementStep making a parentless paragraph of content that has no parent
ElementStep_OrphanParagraph(st, text) ==
    LET book == _identify_book_chapter(text)
        section == _identify_section(text)
    IN  IF book.match # None
        THEN BookStep(st, text)
        ELSE IF section.match # None /\ text.words < 20
        THEN SectionStep(st, text)
        ELSE IF text.words > 10
        THEN IF st.current_hierarchy.subsection # None
             THEN ParagraphStep(st, text, st.current_hierarchy.subsection)
             ELSE IF st.current_hierarchy.section # None
             THEN IF text.words < 50 /\ text.colon
                  THEN SubsectionStep(st, text)
                  ELSE ParagraphStep(st, text, st.current_hierarchy.section)
             ELSE ParagraphStep(st, text, st.current_hierarchy.book)
        ELSE st

\* the body of the loop of process_html for one element with non-empty text
ElementStep(st, text) ==
    LET book == _identify_book_chapter(text)
        section == _identify_section(text)
    IN  IF book.match # None
        THEN BookStep(st, text)
        ELSE IF section.match # None /\ text.words < 20
        THEN SectionStep(st, text)
        ELSE IF text.words > 10
        THEN IF st.current_hierarchy.subsection # None
             THEN ParagraphStep(st, text, st.current_hierarchy.subsection)
             ELSE IF st.current_hierarchy.section # None
             THEN IF text.words < 50 /\ text.colon
                  THEN SubsectionStep(st, text)
                  ELSE ParagraphStep(st, text, st.current_hierarchy.section)
             ELSE IF st.current_hierarchy.book # None
             THEN ParagraphStep(st, text, st.current_hierarchy.book)
             ELSE st
        ELSE st

\* one iteration of the loop of process_html over the next element
ProcessElement ==
    /\ component = "html"
    /\ hp_pc = "building"
    /\ pos < Len(doc)
    /\ pos' = pos + 1
    /\ LET st == ElementStep(BuildState(nodes, root_nodes, current_hierarchy, node_id),
                             doc[pos + 1])
       IN  /\ nodes' = st.nodes
           /\ root_nodes' = st.root_nodes
           /\ current_hierarchy' = st.current_hierarchy
           /\ node_id' = st.node_id
    /\ UNCHANGED <<component, doc, runs, hp_pc, chunks, candidates, notHP>>

\* the loop is exhausted: process_html returns
FinishProcessHtml ==
    /\ component = "html"
    /\ hp_pc = "building"
    /\ pos = Len(doc)
    /\ hp_pc' = "done"
    /\ UNCHANGED <<component, doc, pos, runs, nodes, root_nodes, current_hierarchy,
                   node_id, chunks, candidates, notHP>>

\* ------------------------------------------------- create_semantic_chunks
\* defaults of create_semantic_chunks(min_words, max_words)
min_words == 50
max_words == 300
\* a paragraph becomes a chunk of its own from this many words on
ParagraphMinWords == 30
\* node.children_ids[:10]
MaxRollupChildren == 10

\* _collect_subtree_text(node_id, max_depth, max_words); the loop over
\* node.children_ids[:10] is CollectChildren, from child i on
RECURSIVE _collect_subtree_text(_, _, _, _)
RECURSIVE CollectChildren(_, _, _, _, _, _, _)
CollectChildren(reg, children, i, texts, current_words, max_depth, budget) ==
    IF i > Len(children) \/ current_words >= budget
    THEN texts
    ELSE LET child_text ==
                 _collect_subtree_text(reg, children[i], max_depth - 1,
                                       budget - current_words)
         IN  IF child_text # <<>>
             THEN CollectChildren(reg, children, i + 1, texts \o child_text,
                                  current_words + WordCount(child_text),
                                  max_depth, budget)
             ELSE CollectChildren(reg, children, i + 1, texts, current_words,
                                  max_depth, budget)

_collect_subtree_text(reg, id, max_depth, budget) ==
    IF ~HasNode(reg, id) THEN <<>>
    ELSE LET node == NodeOf(reg, id)
         IN  IF max_depth > 0 /\ node.children_ids # <<>>
             THEN CollectChildren(reg, Prefix(node.children_ids, MaxRollupChildren),
                                  1, <<node.text>>, node.text.words, max_depth, budget)
             ELSE <<node.text>>

Chunk(node, text, chunk_type, children_count) ==
    [chunk_id |-> node.id, text |-> text, chunk_type |-> chunk_type,
     level |-> node.level, parent_id |-> node.parent_id,
     children_count |-> children_count]

\* Strategy 1: one rollup per entry of self.root_nodes
RECURSIVE BookChunks(_, _, _)
BookChunks(reg, roots, i) ==
    IF i > Len(roots) THEN <<>>
    ELSE LET root_node == NodeOf(reg, roots[i])
             chunk_text == _collect_subtree_text(reg, roots[i], 2, max_words)
         IN  (IF chunk_text # <<>> /\ WordCount(chunk_text) >= min_words
              THEN <<Chunk(root_node, chunk_text, "book_overview",
                           Len(root_node.children_ids))>>
              ELSE <<>>) \o BookChunks(reg, roots, i + 1)

\* Strategy 2: one rollup per level-2 node, in registry order
RECURSIVE SectionChunks(_, _)
SectionChunks(reg, i) ==
    IF i > Len(reg) THEN <<>>
    ELSE LET node == reg[i]
             chunk_text == _collect_subtree_text(reg, node.id, 3, max_words)
         IN  (IF node.level = 2 /\ chunk_text # <<>>
                 /\ WordCount(chunk_text) >= min_words
              THEN <<Chunk(node, chunk_text, "section_detail", Len(node.children_ids))>>
              ELSE <<>>) \o SectionChunks(reg, i + 1)

\* Strategy 3: every level-4 node with enough words, verbatim
RECURSIVE ParagraphChunks(_, _)
ParagraphChunks(reg, i) ==
    IF i > Len(reg) THEN <<>>
    ELSE LET node == reg[i]
         IN  (IF node.level = 4 /\ node.text.words >= ParagraphMinWords
              THEN <<Chunk(node, <<node.text>>, "paragraph", 0)>>
              ELSE <<>>) \o ParagraphChunks(reg, i + 1)

HasChunk(list, id) == \E i \in 1..Len(list) : list[i].chunk_id = id
IndexOfChunk(list, id) == CHOOSE i \in 1..Len(list) : list[i].chunk_id = id

\* UniqueChunks without the membership test: every candidate is kept
UniqueChunks_KeepAll(list, i, unique_chunks) == list

\* the loop filling unique_chunks: the first chunk of an id is kept unless a
\* later one has a strictly longer text; a replaced entry keeps its position
RECURSIVE UniqueChunks(_, _, _)
UniqueChunks(list, i, unique_chunks) ==
    IF i > Len(list) THEN unique_chunks
    ELSE LET chunk == list[i]
         IN  IF ~HasChunk(unique_chunks, chunk.chunk_id)
             THEN UniqueChunks(list, i + 1, Append(unique_chunks, chunk))
             ELSE LET j == IndexOfChunk(unique_chunks, chunk.chunk_id)
                  IN  IF CharLen(chunk.text) > CharLen(unique_chunks[j].text)
                      THEN UniqueChunks(list, i + 1,
                                        [unique_chunks EXCEPT ![j] = chunk])
                      ELSE UniqueChunks(list, i + 1, unique_chunks)

\* the insertion of a sort that puts a chunk before the chunks of its own level
RECURSIVE InsertByLevel_BeforeEquals(_, _)
InsertByLevel_BeforeEquals(sorted, chunk) ==
    IF sorted = <<>> THEN <<chunk>>
    ELSE IF sorted[Len(sorted)].level < chunk.level
         THEN Append(sorted, chunk)
         ELSE Append(InsertByLevel_BeforeEquals(SubSeq(sorted, 1, Len(sorted) - 1), chunk),
                     sorted[Len(sorted)])

\* final_chunks.sort(key=level): a stable insertion sort
RECURSIVE InsertByLevel(_, _)
InsertByLevel(sorted, chunk) ==
    IF sorted = <<>> THEN <<chunk>>
    ELSE IF sorted[Len(sorted)].level <= chunk.level
         THEN Append(sorted, chunk)
         ELSE Append(InsertByLevel(SubSeq(sorted, 1, Len(sorted) - 1), chunk),
                     sorted[Len(sorted)])

RECURSIVE SortByLevel(_, _, _)
SortByLevel(list, i, sorted) ==
    IF i > Len(list) THEN sorted
    ELSE SortByLevel(list, i + 1, InsertByLevel(sorted, list[i]))

DerivedChunks(reg, roots) ==
    BookChunks(reg, roots, 1) \o SectionChunks(reg, 1) \o ParagraphChunks(reg, 1)

FinalChunks(list) == SortByLevel(UniqueChunks(list, 1, <<>>), 1, <<>>)

\* create_semantic_chunks() with the default configuration
CreateSemanticChunks ==
    /\ component = "html"
    /\ hp_pc = "done"
    /\ candidates' = DerivedChunks(nodes, root_nodes)
    /\ chunks' = FinalChunks(DerivedChunks(nodes, root_nodes))
    /\ UNCHANGED <<component, doc, pos, runs, hp_pc, nodes, root_nodes,
                   current_hierarchy, node_id, notHP>>

\* -------------------------------------------------- AdvancedDataProcessor
\* tag_to_level of process_html
tag_to_level ==
    [h1 |-> 1, h2 |-> 2, h3 |-> 3, h4 |-> 4, h5 |-> 5,
     section |-> 2, article |-> 1, div |-> 3]

StructuralTags == DOMAIN tag_to_level

\* len(current_hierarchy) = len([None] * 5)
HierarchySlots == 5

AdpText(tag) == T(tag, 3, 15, FALSE)

\* current_hierarchy[level] = node.id
\* for l in range(level + 1, 5): current_hierarchy[l] = None
UpdateHierarchy(hierarchy, level, id) ==
    [l \in 0..(HierarchySlots - 1) |->
        IF l = level THEN id
        ELSE IF l > level THEN None ELSE hierarchy[l]]

\* process_element on a structural element with non-empty text.  Assigning
\* current_hierarchy[level] raises IndexError when level is not an index of
\* the five-slot list; nothing of the node has been stored by then.
AdpStructural(tag) ==
    LET level == tag_to_level[tag]
        node == DocumentNode(<<"node", adp_node_id>>, AdpText(tag), level,
                             IF level > 1 THEN adp_hierarchy[level - 1] ELSE None,
                             "structural")
    IN  /\ component = "adp"
        /\ adp_pc = "running"
        /\ adp_node_id < MaxSegments
        /\ IF level >= HierarchySlots
           THEN /\ adp_pc' = "raised"
                /\ UNCHANGED <<adp_nodes, adp_root_nodes, adp_hierarchy, adp_node_id>>
           ELSE /\ adp_hierarchy' = UpdateHierarchy(adp_hierarchy, level, node.id)
                /\ adp_nodes' = PutNode(AddToParent(adp_nodes, node), node)
                /\ adp_node_id' = adp_node_id + 1
                /\ adp_root_nodes' =
                       IF level = 1 THEN Append(adp_root_nodes, node.id)
                       ELSE adp_root_nodes
                /\ UNCHANGED adp_pc
        /\ UNCHANGED <<component, notADP>>

\* process_element on a non-blank string child: a paragraph node
AdpTextNode ==
    LET parent_id ==
            IF adp_hierarchy[3] # None THEN adp_hierarchy[3]
            ELSE IF adp_hierarchy[2] # None THEN adp_hierarchy[2]
            ELSE adp_hierarchy[1]
        node == DocumentNode(<<"para", adp_node_id>>, AdpText("text"), 4, parent_id,
                             "paragraph")
    IN  /\ component = "adp"
        /\ adp_pc = "running"
        /\ adp_node_id < MaxSegments
        /\ adp_nodes' = PutNode(adp_nodes, node)
        /\ adp_node_id' = adp_node_id + 1
        /\ UNCHANGED <<component, notADP, adp_pc, adp_root_nodes, adp_hierarchy>>

AdpProcessElement == \E tag \in StructuralTags : AdpStructural(tag)

\* ------------------------------------- AdvancedDataProcessor.process_pdf
\* self.section_patterns of AdvancedDataProcessor: (heads the pattern matches,
\* level).  The lines of a page are given by their head:
\*   "CHAPTER I"  matches  ^(CHAPTER|Chapter|CHAP\.)\s+([IVXLCDM0-9]+|[A-Z])
\*   "1.1"        matches  ^(\d+\.\d+)\s+
\*   "1.1.1"      matches  ^(\d+\.\d+\.\d+)\s+
\*   "1"          matches  ^(\d+)\s+
\*   "A."         matches  ^([A-Z])\.\s+
\*   "(a)"        matches  ^\(([a-z])\)\s+
\*   "plain"      matches none of the patterns
adp_section_patterns ==
    << [heads |-> {"CHAPTER I"}, level |-> 1],
       [heads |-> {"1.1"},       level |-> 2],
       [heads |-> {"1.1.1"},     level |-> 3],
       [heads |-> {"1"},         level |-> 2],
       [heads |-> {"A."},        level |-> 3],
       [heads |-> {"(a)"},       level |-> 4] >>

PdfLines == {"CHAPTER I", "1.1", "1.1.1", "1", "A.", "(a)", "plain"}

\* Number of lines and page ends of a PDF.
MaxPdfRead == 5

\* _determine_level(text): the first pattern that matches decides
_determine_level(head) ==
    LET hits == {i \in 1..Len(adp_section_patterns) : head \in adp_section_patterns[i].heads}
    IN  IF hits = {} THEN [section_id |-> None, level |-> 0]
        ELSE LET first == CHOOSE i \in hits : \A j \in hits : i <= j
             IN  [section_id |-> <<head>>, level |-> adp_section_patterns[first].level]

\* the paragraph node made of current_text, if there is any
FlushText(list, hierarchy, n, lines) ==
    IF lines = 0 THEN [nodes |-> list, node_id |-> n]
    ELSE LET parent_id == IF hierarchy[3] # None THEN hierarchy[3]
                          ELSE IF hierarchy[2] # None THEN hierarchy[2]
                          ELSE hierarchy[1]
         IN  [nodes |-> Append(list, DocumentNode(<<"para", n>>, T("plain", lines, 0, FALSE),
                                                  4, parent_id, "paragraph")),
              node_id |-> n + 1]

\* process_pdf up to its loop
StartProcessPdf ==
    /\ component = "pdf"
    /\ pdf_pc = "idle"
    /\ pdf_pc' = "running"
    /\ pdf_nodes' = <<>>
    /\ pdf_hierarchy' = [l \in 0..(HierarchySlots - 1) |-> None]
    /\ pdf_node_id' = 0
    /\ current_text' = 0
    /\ UNCHANGED <<component, pdf_root_nodes, pdf_read, notPDF>>

\* a line that _determine_level recognises: the text gathered so far becomes a
\* paragraph node, then the section node is created
PdfHeaderLine ==
    /\ component = "pdf"
    /\ pdf_pc = "running"
    /\ pdf_read < MaxPdfRead
    /\ \E line \in PdfLines :
        LET level == _determine_level(line).level
            flushed == FlushText(pdf_nodes, pdf_hierarchy, pdf_node_id, current_text)
            section_node ==
                DocumentNode(<<"sec", flushed.node_id>>, T(line, 3, 15, FALSE), level,
                             IF level > 1 THEN pdf_hierarchy[level - 1] ELSE None,
                             "section")
        IN  /\ level > 0
            /\ pdf_hierarchy' = UpdateHierarchy(pdf_hierarchy, level, section_node.id)
            /\ pdf_nodes' = Append(AddToParent(flushed.nodes, section_node), section_node)
            /\ pdf_node_id' = flushed.node_id + 1
            /\ pdf_root_nodes' =
                   IF level = 1 /\ section_node.parent_id = None
                   THEN Append(pdf_root_nodes, section_node.id)
                   ELSE pdf_root_nodes
    /\ current_text' = 0
    /\ pdf_read' = pdf_read + 1
    /\ UNCHANGED <<component, pdf_pc, notPDF>>

\* a non-blank line that _determine_level does not recognise
PdfTextLine ==
    /\ component = "pdf"
    /\ pdf_pc = "running"
    /\ pdf_read < MaxPdfRead
    /\ \E line \in PdfLines : _determine_level(line).level = 0
    /\ current_text' = current_text + 1
    /\ pdf_read' = pdf_read + 1
    /\ UNCHANGED <<component, pdf_pc, pdf_nodes, pdf_root_nodes, pdf_hierarchy, pdf_node_id,
                   notPDF>>

\* the end of a page: the remaining text becomes a paragraph node, and the
\* next page starts with an empty current_text
PdfEndOfPage ==
    /\ component = "pdf"
    /\ pdf_pc = "running"
    /\ pdf_read < MaxPdfRead
    /\ LET flushed == FlushText(pdf_nodes, pdf_hierarchy, pdf_node_id, current_text)
       IN  /\ pdf_nodes' = flushed.nodes
           /\ pdf_node_id' = flushed.node_id
    /\ current_text' = 0
    /\ pdf_read' = pdf_read + 1
    /\ UNCHANGED <<component, pdf_pc, pdf_root_nodes, pdf_hierarchy, notPDF>>

\* after the last page: self.nodes = {node.id: node for node in nodes}
FinishProcessPdf ==
    /\ component = "pdf"
    /\ pdf_pc = "running"
    /\ current_text = 0
    /\ pdf_pc' = "done"
    /\ UNCHANGED <<component, pdf_nodes, pdf_root_nodes, pdf_hierarchy, pdf_node_id,
                   current_text, pdf_read, notPDF>>

\* ---------------------------------------------- SimpleHierarchicalRetriever
\* Largest k of a retrieval call.
MaxK == 3
\* Number of create_embeddings calls on one retriever.
MaxBuilds == 2

\* Cosine similarities a query can have with a chunk, and the thresholds a
\* call can pass, in units of 1/1000.  Thresholds are multiples of 50, so
\* that the products with 0.8 and 0.9 are whole numbers of units.
Scores == {-450, 220, 600}
Thresholds == {-500, 250, 500}

\* x * (tenths / 10), for the factors 0.8 and 0.9 of the code
TimesTenths(x, tenths) == (x * tenths) \div 10

\* text[:150] of _get_parent_text and chunk["text"][:200] of the child results
ParentPreviewLen == 150
ChildParentPreviewLen == 200

\* text[:n] + "..." if len(text) > n else text
Preview(text, n) ==
    [of |-> text,
     chars |-> IF CharLen(text) > n THEN n ELSE CharLen(text),
     ellipsis |-> CharLen(text) > n]

EmptyMap == [x \in {} |-> x]
MapGet(m, key, default) == IF key \in DOMAIN m THEN m[key] ELSE default
MapPut(m, key, value) ==
    [x \in DOMAIN m \cup {key} |-> IF x = key THEN value ELSE m[x]]

Min(a, b) == IF a <= b THEN a ELSE b

\* process_html of a fresh processor over a whole element stream
RECURSIVE ProcessAll(_, _, _)
ProcessAll(st, elements, i) ==
    IF i > Len(elements) THEN st
    ELSE ProcessAll(ElementStep(st, elements[i]), elements, i + 1)

\* processor.process_html(); processor.create_semantic_chunks()
SemanticChunksOf(elements) ==
    LET st == ProcessAll(BuildState(<<>>, <<>>, NoHierarchy, 0), elements, 1)
    IN  FinalChunks(DerivedChunks(st.nodes, st.root_nodes))

\* The documents whose chunk lists the retrievers are built from:
\*   a book with a section holding two paragraphs,
\*   a book holding three paragraphs,
\*   a section with a subsection (which yields no chunk) holding two paragraphs.
RetrieverDocs ==
    { << T("BOOK I", 2, 6, FALSE), T("1.", 3, 14, FALSE),
         T("plain", 60, 340, FALSE), T("plain", 35, 200, FALSE) >>,
      << T("BOOK I", 2, 6, FALSE), T("plain", 35, 200, FALSE),
         T("plain", 60, 340, FALSE), T("plain", 60, 340, FALSE) >>,
      << T("1.", 3, 14, FALSE), T("plain", 12, 70, TRUE),
         T("plain", 35, 200, FALSE), T("plain", 35, 200, FALSE) >> }

ChunkLists == {SemanticChunksOf(d) : d \in RetrieverDocs}

ChunkIds(list) == {list[i].chunk_id : i \in 1..Len(list)}

\* {chunk["chunk_id"]: chunk for chunk in chunks}: the last chunk of an id wins
ChunkMapOf(list) ==
    [id \in ChunkIds(list) |->
        list[CHOOSE i \in 1..Len(list) :
                /\ list[i].chunk_id = id
                /\ \A j \in (i + 1)..Len(list) : list[j].chunk_id # id]]

\* the loop building the hierarchy maps, on top of the maps given
RECURSIVE BuildParentMap(_, _, _)
BuildParentMap(list, i, pmap) ==
    IF i > Len(list) THEN pmap
    ELSE IF list[i].parent_id # None
         THEN BuildParentMap(list, i + 1, MapPut(pmap, list[i].chunk_id, list[i].parent_id))
         ELSE BuildParentMap(list, i + 1, pmap)

RECURSIVE BuildChildMap(_, _, _)
BuildChildMap(list, i, cmap) ==
    IF i > Len(list) THEN cmap
    ELSE IF list[i].parent_id # None
         THEN BuildChildMap(list, i + 1,
                  MapPut(cmap, list[i].parent_id,
                         Append(MapGet(cmap, list[i].parent_id, <<>>), list[i].chunk_id)))
         ELSE BuildChildMap(list, i + 1, cmap)

\* the arguments of a retrieve_with_context call, with the query given by its
\* similarity to every chunk and `found` the positions index.search returned
Call(sim, k, threshold, include_parent, include_children, found) ==
    [sim |-> sim, k |-> k, threshold |-> threshold, include_parent |-> include_parent,
     include_children |-> include_children, found |-> found]

NoCall == Call(EmptyMap, 0, 0, FALSE, FALSE, <<>>)

\* create_embeddings(chunks): the maps are extended, not rebuilt
CreateEmbeddings ==
    /\ component \in {"retriever", "store"}
    /\ st_pc = "original"
    /\ sr_call = NoCall
    /\ builds < MaxBuilds
    /\ \E list \in ChunkLists :
        /\ sr_chunks' = list
        /\ chunk_map' = ChunkMapOf(list)
        /\ parent_map' = BuildParentMap(list, 1, parent_map)
        /\ child_map' = BuildChildMap(list, 1, child_map)
        /\ index' = <<Len(list)>>
    /\ builds' = builds + 1
    /\ UNCHANGED <<component, sr_call, results, sr_outcome, notSR>>

\* index.search(query, n): the n best positions, best first.  The order of
\* equally scored vectors is not specified, so every such order is possible.
SearchResults(sim, list, ntotal, n) ==
    {s \in SeqsUpTo(1..ntotal, n) :
        /\ Len(s) = n
        /\ \A i, j \in 1..n : s[i] = s[j] => i = j
        /\ \A i \in 1..(n - 1) : sim[list[s[i]].chunk_id] >= sim[list[s[i + 1]].chunk_id]
        /\ \A e \in 1..ntotal :
            (\A i \in 1..n : s[i] # e) =>
                \A i \in 1..n : sim[list[e].chunk_id] <= sim[list[s[i]].chunk_id]}

\* _get_parent_text(chunk_id)
_get_parent_text(chunk_id) ==
    LET parent_id == MapGet(parent_map, chunk_id, None)
    IN  IF parent_id # None /\ parent_id \in DOMAIN chunk_map
        THEN Preview(chunk_map[parent_id].text, ParentPreviewLen)
        ELSE None

\* results.sort(key=similarity, reverse=True): stable, best first
RECURSIVE InsertBySimilarity(_, _)
InsertBySimilarity(sorted, r) ==
    IF sorted = <<>> THEN <<r>>
    ELSE IF sorted[Len(sorted)].similarity >= r.similarity
         THEN Append(sorted, r)
         ELSE Append(InsertBySimilarity(SubSeq(sorted, 1, Len(sorted) - 1), r),
                     sorted[Len(sorted)])

RECURSIVE SortBySimilarity_Loop(_, _, _)
SortBySimilarity_Loop(list, i, sorted) ==
    IF i > Len(list) THEN sorted
    ELSE SortBySimilarity_Loop(list, i + 1, InsertBySimilarity(sorted, list[i]))

\* the sort left out
SortBySimilarity_Unsorted(list) == list

SortBySimilarity(list) == SortBySimilarity_Loop(list, 1, <<>>)

\* the children of a chunk that are chunks themselves, in child_map order
RECURSIVE ChildChunks(_, _)
ChildChunks(child_ids, i) ==
    IF i > Len(child_ids) THEN <<>>
    ELSE (IF child_ids[i] \in DOMAIN chunk_map
          THEN <<chunk_map[child_ids[i]]>> ELSE <<>>) \o ChildChunks(child_ids, i + 1)

\* pairs (chunk, similarity) of the children at or above the threshold
RECURSIVE ScoredChildren(_, _, _, _)
ScoredChildren(child_chunks, i, sim, threshold) ==
    IF i > Len(child_chunks) THEN <<>>
    ELSE (IF sim[child_chunks[i].chunk_id] >= threshold
          THEN <<[chunk |-> child_chunks[i],
                  similarity |-> sim[child_chunks[i].chunk_id]]>>
          ELSE <<>>) \o ScoredChildren(child_chunks, i + 1, sim, threshold)

\* _get_relevant_children keeping every child, whatever its score
_get_relevant_children_Unfiltered(parent_id, sim, threshold) ==
    LET child_chunks == ChildChunks(MapGet(child_map, parent_id, <<>>), 1)
    IN  SortBySimilarity(
            [i \in 1..Len(child_chunks) |->
                [chunk |-> child_chunks[i], similarity |-> sim[child_chunks[i].chunk_id]]])

\* _get_relevant_children with the comparison inverted: keeps the children below
\* the threshold
_get_relevant_children_Inverted(parent_id, sim, threshold) ==
    LET child_chunks == ChildChunks(MapGet(child_map, parent_id, <<>>), 1)
        all == [i \in 1..Len(child_chunks) |->
                   [chunk |-> child_chunks[i],
                    similarity |-> sim[child_chunks[i].chunk_id]]]
    IN  SortBySimilarity(SelectSeq(all, LAMBDA c : c.similarity < threshold))

\* _get_relevant_children(parent_id, query_embedding, threshold).  Encoding a
\* child's text again gives the vector the index holds for that chunk, so the
\* child's similarity is the chunk's similarity to the query.
_get_relevant_children(parent_id, sim, threshold) ==
    LET child_chunks == ChildChunks(MapGet(child_map, parent_id, <<>>), 1)
    IN  SortBySimilarity(ScoredChildren(child_chunks, 1, sim, threshold))

HierarchicalResult(chunk, similarity, parent_text, child_count) ==
    [chunk_id |-> chunk.chunk_id, text |-> chunk.text, similarity |-> similarity,
     level |-> chunk.level, parent_text |-> parent_text, child_count |-> child_count]

\* the loop over child_results[:2]
RECURSIVE AppendChildren(_, _, _, _, _)
AppendChildren(child_results, i, res, seen_chunks, chunk) ==
    IF i > Len(child_results) THEN [results |-> res, seen_chunks |-> seen_chunks]
    ELSE LET child == child_results[i]
         IN  IF child.chunk.chunk_id \notin seen_chunks
             THEN AppendChildren(child_results, i + 1,
                      Append(res, HierarchicalResult(child.chunk, child.similarity,
                                      Preview(chunk.text, ChildParentPreviewLen), 0)),
                      seen_chunks \cup {child.chunk.chunk_id}, chunk)
             ELSE AppendChildren(child_results, i + 1, res, seen_chunks, chunk)

\* self.child_map.get(chunk_id, []) with a lookup that inserts the default,
\* as self.child_map[chunk_id] does on a defaultdict
ChildMapAfterGet_Inserting(cmap, chunk_id) ==
    IF chunk_id \in DOMAIN cmap THEN cmap ELSE MapPut(cmap, chunk_id, <<>>)

\* self.child_map after self.child_map.get(chunk_id, []): dict.get inserts nothing,
\* on a defaultdict as on a dict
ChildMapAfterGet(cmap, chunk_id) == cmap

\* one iteration of the loop of retrieve_with_context, on entry i of the search
\* result; a is the call: [sim, k, threshold, include_parent, include_children,
\* found].  `looked_up` is the chunk_id whose children were looked up, if any.
LoopIteration(found, i, res, seen_chunks, a) ==
    LET idx == found[i]
        skipped == [results |-> res, seen_chunks |-> seen_chunks, stop |-> FALSE,
                    looked_up |-> None]
    IN  IF idx > Len(sr_chunks) THEN skipped
        ELSE
        LET chunk == sr_chunks[idx]
            score == a.sim[chunk.chunk_id]
        IN  IF score < a.threshold \/ chunk.chunk_id \in seen_chunks
            THEN skipped
            ELSE
            LET parent_text ==
                    IF a.include_parent THEN _get_parent_text(chunk.chunk_id)
                    ELSE None
                child_count == Len(MapGet(child_map, chunk.chunk_id, <<>>))
                result == HierarchicalResult(chunk, score, parent_text, child_count)
                child_results ==
                    IF a.include_children /\ child_count > 0
                    THEN Prefix(_get_relevant_children(chunk.chunk_id, a.sim,
                                    TimesTenths(a.threshold, 8)), 2)
                    ELSE <<>>
                next == AppendChildren(child_results, 1, Append(res, result),
                                       seen_chunks \cup {chunk.chunk_id}, chunk)
            IN  [results |-> next.results, seen_chunks |-> next.seen_chunks,
                 stop |-> Len(next.results) >= a.k, looked_up |-> <<chunk.chunk_id>>]

\* the loop of retrieve_with_context over the search result, from entry i on
RECURSIVE RetrieveLoop(_, _, _, _, _)
RetrieveLoop(found, i, res, seen_chunks, a) ==
    IF i > Len(found) THEN res
    ELSE LET it == LoopIteration(found, i, res, seen_chunks, a)
         IN  IF it.stop THEN it.results
             ELSE RetrieveLoop(found, i + 1, it.results, it.seen_chunks, a)

\* the list `results` of retrieve_with_context when its loop ends
Collected(a) == RetrieveLoop(a.found, 1, <<>>, {}, a)

\* what retrieve_with_context returns: sorted, then results[:k]
Retrieved(a) == Prefix(SortBySimilarity(Collected(a)), a.k)

\* retrieve_with_context(query, k, threshold, include_parent, include_children)
\* on a built index; the query is given by its similarity to every chunk
RetrieveWithContext ==
    /\ component = "retriever"
    /\ sr_call = NoCall
    /\ index # None
    /\ \E sim \in [ChunkIds(sr_chunks) -> Scores], k \in 1..MaxK,
          threshold \in Thresholds, include_parent, include_children \in BOOLEAN :
        \E found \in SearchResults(sim, sr_chunks, index[1], Min(k * 3, Len(sr_chunks))) :
            LET a == Call(sim, k, threshold, include_parent, include_children, found)
            IN  /\ sr_call' = a
                /\ results' = Retrieved(a)
    /\ sr_outcome' = "returned"
    /\ UNCHANGED <<component, index, sr_chunks, chunk_map, parent_map, child_map,
                   builds, notSR>>

\* the call reaches self.model.encode(child_texts) of _get_relevant_children:
\* children were asked for and a hit of the loop has children that are chunks
EncodesChildren(a) ==
    /\ a.include_children
    /\ \E i \in 1..Len(Collected(a)) :
        /\ Collected(a)[i].child_count > 0
        /\ ChildChunks(MapGet(child_map, Collected(a)[i].chunk_id, <<>>), 1) # <<>>

\* retrieve_with_context in which self.model.encode(child_texts) raises: nothing
\* catches the exception, neither _get_relevant_children nor the loop
RetrieveWithContextChildrenFail ==
    /\ component = "retriever"
    /\ sr_call = NoCall
    /\ index # None
    /\ \E sim \in [ChunkIds(sr_chunks) -> Scores], k \in 1..MaxK,
          threshold \in Thresholds, include_parent \in BOOLEAN :
        \E found \in SearchResults(sim, sr_chunks, index[1], Min(k * 3, Len(sr_chunks))) :
            LET a == Call(sim, k, threshold, include_parent, TRUE, found)
            IN  /\ EncodesChildren(a)
                /\ sr_call' = a
    /\ results' = <<>>
    /\ sr_outcome' = "raised"
    /\ UNCHANGED <<component, index, sr_chunks, chunk_map, parent_map, child_map,
                   builds, notSR>>

\* retrieve_with_context on a retriever whose index is None: RuntimeError
RetrieveUninitialized ==
    /\ component = "retriever"
    /\ sr_call = NoCall
    /\ index = None
    /\ \E k \in 1..MaxK, threshold \in Thresholds, include_parent, include_children \in BOOLEAN :
        sr_call' = Call(EmptyMap, k, threshold, include_parent, include_children, <<>>)
    /\ results' = <<>>
    /\ sr_outcome' = "raised"
    /\ UNCHANGED <<component, index, sr_chunks, chunk_map, parent_map, child_map,
                   builds, notSR>>

\* the caller has taken the returned list; the retriever keeps nothing of the call
ReturnResults ==
    /\ component = "retriever"
    /\ sr_call # NoCall
    /\ sr_call' = NoCall
    /\ results' = <<>>
    /\ sr_outcome' = ""
    /\ UNCHANGED <<component, index, sr_chunks, chunk_map, parent_map, child_map,
                   builds, notSR>>

\* ----------------------------------------------------------- EmbeddingRetriever
ErCall(sim, k, threshold, outcome) ==
    [sim |-> sim, k |-> k, threshold |-> threshold, outcome |-> outcome]

\* create_embeddings(chunks)
ErCreateEmbeddings ==
    /\ component = "flat"
    /\ er_call = NoCall
    /\ er_index = None
    /\ \E list \in ChunkLists :
        /\ er_chunks' = list
        /\ er_index' = <<Len(list)>>
    /\ UNCHANGED <<component, er_call, er_results, notER>>

\* the loop of retrieve over the positions found: those below the threshold are
\* skipped (a search for more entries than the index holds pads with -1, which
\* are skipped as well)
ErResults(sim, found, threshold) ==
    LET kept == SelectSeq(found, LAMBDA p : sim[er_chunks[p].chunk_id] >= threshold)
    IN  [i \in 1..Len(kept) |->
            [chunk_id |-> er_chunks[kept[i]].chunk_id,
             similarity |-> sim[er_chunks[kept[i]].chunk_id]]]

\* retrieve(query, k, threshold) on a built index
ErRetrieve ==
    /\ component = "flat"
    /\ er_call = NoCall
    /\ er_index # None
    /\ \E sim \in [ChunkIds(er_chunks) -> Scores], k \in 1..MaxK, threshold \in Thresholds :
        \E found \in SearchResults(sim, er_chunks, er_index[1], Min(k, er_index[1])) :
            /\ er_call' = ErCall(sim, k, threshold, "returned")
            /\ er_results' = ErResults(sim, found, threshold)
    /\ UNCHANGED <<component, er_index, er_chunks, notER>>

\* retrieve on a retriever whose index is None: RuntimeError
ErRetrieveUninitialized ==
    /\ component = "flat"
    /\ er_call = NoCall
    /\ er_index = None
    /\ \E k \in 1..MaxK, threshold \in Thresholds :
        er_call' = ErCall(EmptyMap, k, threshold, "raised")
    /\ er_results' = <<>>
    /\ UNCHANGED <<component, er_index, er_chunks, notER>>

\* the caller has taken the outcome of the call
ErReturn ==
    /\ component = "flat"
    /\ er_call # NoCall
    /\ er_call' = NoCall
    /\ er_results' = <<>>
    /\ UNCHANGED <<component, er_index, er_chunks, notER>>

\* ---------------------------------------------------- HierarchicalRetriever
\* Largest k of a hierarchical_retrieve call.
HrMaxK == 4

\* top_down_retrieval searches the first 3 levels for k*2 entries each,
\* bottom_up_retrieval the last 2 levels for k*3 entries each
TopDownLevels == 3
TopDownFetch == 2
BottomUpLevels == 2
BottomUpFetch == 3

Strategies == {"top_down", "bottom_up", "hybrid"}

\* self.level_chunks after build_hierarchy: level -> chunks of that level, in order
LevelChunks(list) ==
    [level \in {list[i].level : i \in 1..Len(list)} |->
        SelectSeq(list, LAMBDA c : c.level = level)]

\* sorted(self.level_indices.keys()) and sorted(..., reverse=True)
RECURSIVE SortedAscending(_)
SortedAscending(S) ==
    IF S = {} THEN <<>>
    ELSE LET least == CHOOSE x \in S : \A y \in S : x <= y
         IN  <<least>> \o SortedAscending(S \ {least})

RECURSIVE Reversed(_)
Reversed(s) == IF s = <<>> THEN <<>> ELSE Append(Reversed(Tail(s)), Head(s))

\* create_multi_level_embeddings(chunks) on a fresh retriever
CreateMultiLevelEmbeddings ==
    /\ component = "hybrid"
    /\ hr_chunks = <<>>
    /\ hr_call = NoCall
    /\ \E list \in ChunkLists :
        /\ hr_chunks' = list
        /\ level_indices' = LevelChunks(list)
    /\ UNCHANGED <<component, hr_call, hr_results, notHR>>

\* the (chunk, score) pairs one level contributes: the level's index is searched
\* for n entries and those at or above the threshold are kept, in search order
LevelHits(level, sim, n, threshold) ==
    LET lvl_chunks == level_indices[level]
    IN  {SelectSeq([i \in 1..Len(found) |->
                       [chunk |-> lvl_chunks[found[i]],
                        similarity |-> sim[lvl_chunks[found[i]].chunk_id]]],
                   LAMBDA r : r.similarity >= threshold) :
            found \in SearchResults(sim, lvl_chunks, Len(lvl_chunks), n)}

\* the lists `results` the loop over the levels can build, from level i on
RECURSIVE LevelLoop(_, _, _, _, _, _)
LevelLoop(levels, i, sim, fetch, k, threshold) ==
    IF i > Len(levels) THEN {<<>>}
    ELSE {hits \o rest :
            hits \in LevelHits(levels[i], sim,
                               Min(k * fetch, Len(level_indices[levels[i]])), threshold),
            rest \in LevelLoop(levels, i + 1, sim, fetch, k, threshold)}

\* top_down_retrieval(query_embedding, k, threshold): the lists it can return
top_down_retrieval(sim, k, threshold) ==
    {Prefix(SortBySimilarity(r), k) :
        r \in LevelLoop(Prefix(SortedAscending(DOMAIN level_indices), TopDownLevels), 1,
                        sim, TopDownFetch, k, threshold)}

\* bottom_up_retrieval(query_embedding, k, threshold): the lists it can return
bottom_up_retrieval(sim, k, threshold) ==
    {Prefix(SortBySimilarity(r), k) :
        r \in LevelLoop(Prefix(Reversed(SortedAscending(DOMAIN level_indices)),
                               BottomUpLevels), 1,
                        sim, BottomUpFetch, k, threshold)}

\* the loop of _merge_results over the sorted merged list
RECURSIVE MergeLoop(_, _, _, _, _)
MergeLoop(merged, i, seen, unique_results, k) ==
    IF i > Len(merged) THEN unique_results
    ELSE LET added == IF merged[i].chunk.chunk_id \notin seen
                      THEN Append(unique_results, merged[i])
                      ELSE unique_results
         IN  IF Len(added) >= k * 2
             THEN added
             ELSE MergeLoop(merged, i + 1, seen \cup {merged[i].chunk.chunk_id}, added, k)

\* _merge_results with the bottom-up list put first
_merge_results_SecondFirst(results1, results2, k) ==
    Prefix(MergeLoop(SortBySimilarity(results2 \o results1), 1, {}, <<>>, k), k)

\* _merge_results(results1, results2, k)
_merge_results(results1, results2, k) ==
    Prefix(MergeLoop(SortBySimilarity(results1 \o results2), 1, {}, <<>>, k), k)

\* the ancestor walk of enrich_with_hierarchy: the chunks met from `current` upward
RECURSIVE ParentChunks(_, _)
ParentChunks(cmap, current) ==
    IF current # None /\ current \in DOMAIN cmap
    THEN <<cmap[current].chunk_id>> \o ParentChunks(cmap, cmap[current].parent_id)
    ELSE <<>>

\* graph.successors(chunk_id): the chunks that name chunk_id as parent, in list order
Successors(list, chunk_id) ==
    LET kids == SelectSeq(list, LAMBDA c : c.parent_id = chunk_id)
    IN  [i \in 1..Len(kids) |-> kids[i].chunk_id]

\* enrich_with_hierarchy(chunk, similarity)
enrich_with_hierarchy(r) ==
    LET parent_chunks == ParentChunks(ChunkMapOf(hr_chunks), r.chunk.parent_id)
    IN  [chunk_id |-> r.chunk.chunk_id, text |-> r.chunk.text,
         similarity |-> r.similarity, level |-> r.chunk.level,
         parent_chunks |-> parent_chunks,
         child_chunks |-> Prefix(Successors(hr_chunks, r.chunk.chunk_id), 3),
         depth |-> Len(parent_chunks)]

HrCall(sim, k, threshold, strategy, top_down, bottom_up, outcome) ==
    [sim |-> sim, k |-> k, threshold |-> threshold, strategy |-> strategy,
     top_down |-> top_down, bottom_up |-> bottom_up, outcome |-> outcome]

\* hierarchical_retrieve(query, k, threshold, strategy) with one of the single
\* strategies
RetrieveOneWay ==
    /\ component = "hybrid"
    /\ hr_call = NoCall
    /\ \E sim \in [ChunkIds(hr_chunks) -> Scores], k \in 1..HrMaxK,
          threshold \in Thresholds, strategy \in {"top_down", "bottom_up"} :
        \E r \in IF strategy = "top_down" THEN top_down_retrieval(sim, k, threshold)
                 ELSE bottom_up_retrieval(sim, k, threshold) :
            /\ hr_call' = HrCall(sim, k, threshold, strategy,
                                 IF strategy = "top_down" THEN r ELSE <<>>,
                                 IF strategy = "bottom_up" THEN r ELSE <<>>, "returned")
            /\ hr_results' = [i \in 1..Len(r) |-> enrich_with_hierarchy(r[i])]
    /\ UNCHANGED <<component, hr_chunks, level_indices, notHR>>

\* hierarchical_retrieve(query, k, threshold, "hybrid") with k // 2 >= 1
RetrieveHybrid ==
    /\ component = "hybrid"
    /\ hr_call = NoCall
    /\ \E sim \in [ChunkIds(hr_chunks) -> Scores], k \in 2..HrMaxK,
          threshold \in Thresholds :
        \E top_down \in top_down_retrieval(sim, k \div 2, threshold),
           bottom_up \in bottom_up_retrieval(sim, k \div 2, threshold) :
            LET merged == _merge_results(top_down, bottom_up, k)
            IN  /\ hr_call' = HrCall(sim, k, threshold, "hybrid", top_down, bottom_up,
                                     "returned")
                /\ hr_results' = [i \in 1..Len(merged) |-> enrich_with_hierarchy(merged[i])]
    /\ UNCHANGED <<component, hr_chunks, level_indices, notHR>>

\* hierarchical_retrieve(query, 1, threshold, "hybrid"): every level index is
\* searched for min(0, len) = 0 entries.  Whether index.search accepts a request
\* for 0 entries depends on the installed faiss: it returns nothing, or raises.
RetrieveHybridNoQuota ==
    /\ component = "hybrid"
    /\ hr_call = NoCall
    /\ \E sim \in [ChunkIds(hr_chunks) -> Scores], threshold \in Thresholds,
          outcome \in {"returned", "raised"} :
        /\ outcome = "raised" => level_indices # EmptyMap
        /\ hr_call' = HrCall(sim, 1, threshold, "hybrid", <<>>, <<>>, outcome)
        /\ hr_results' = <<>>
    /\ UNCHANGED <<component, hr_chunks, level_indices, notHR>>

\* the caller has taken the outcome of the call
HrReturn ==
    /\ component = "hybrid"
    /\ hr_call # NoCall
    /\ hr_call' = NoCall
    /\ hr_results' = <<>>
    /\ UNCHANGED <<component, hr_chunks, level_indices, notHR>>

\* ------------------------------------------------ OdysseyHierarchicalPipeline
\* A str is the tuple of its characters.
\* Largest k of an answer_question call.
PlMaxK == 8
\* Largest number of phrases a question is put together from.
MaxPhrases == 2

\* str.lower() on the letters the questions use
UpperCase == <<"A", "B", "C", "D", "E", "F", "G", "H", "I", "J", "K", "L", "M", "N", "O", "P", "Q", "R", "S", "T", "U", "V", "W", "X", "Y", "Z">>
LowerCase == <<"a", "b", "c", "d", "e", "f", "g", "h", "i", "j", "k", "l", "m", "n", "o", "p", "q", "r", "s", "t", "u", "v", "w", "x", "y", "z">>

LowerChar(c) ==
    IF \E i \in 1..Len(UpperCase) : UpperCase[i] = c
    THEN LowerCase[CHOOSE i \in 1..Len(UpperCase) : UpperCase[i] = c]
    ELSE c

lower(s) == [i \in 1..Len(s) |-> LowerChar(s[i])]

\* `needle in hay` for a non-empty str needle
Contains(needle, hay) ==
    \E i \in 0..(Len(hay) - Len(needle)) : SubSeq(hay, i + 1, i + Len(needle)) = needle

\* the sets of _analyze_question
odyssey_characters ==
    { <<"o", "d", "y", "s", "s", "e", "u", "s">>,
      <<"p", "e", "n", "e", "l", "o", "p", "e">>,
      <<"t", "e", "l", "e", "m", "a", "c", "h", "u", "s">>,
      <<"a", "t", "h", "e", "n", "a">>,
      <<"p", "o", "s", "e", "i", "d", "o", "n">>,
      <<"c", "i", "r", "c", "e">>,
      <<"c", "a", "l", "y", "p", "s", "o">>,
      <<"p", "o", "l", "y", "p", "h", "e", "m", "u", "s">>,
      <<"n", "e", "s", "t", "o", "r">>,
      <<"m", "e", "n", "e", "l", "a", "u", "s">>,
      <<"a", "g", "a", "m", "e", "m", "n", "o", "n">>,
      <<"n", "a", "u", "s", "i", "c", "a", "a">>,
      <<"e", "u", "m", "a", "e", "u", "s">>,
      <<"a", "n", "t", "i", "n", "o", "u", "s">>,
      <<"e", "u", "r", "y", "m", "a", "c", "h", "u", "s">> }

\* "what is", "who is", "describe", "explain", "tell me about", "overview",
\* "summary", "introduction", "background"
overview_indicators ==
    { <<"w", "h", "a", "t", " ", "i", "s">>,
      <<"w", "h", "o", " ", "i", "s">>,
      <<"d", "e", "s", "c", "r", "i", "b", "e">>,
      <<"e", "x", "p", "l", "a", "i", "n">>,
      <<"t", "e", "l", "l", " ", "m", "e", " ", "a", "b", "o", "u", "t">>,
      <<"o", "v", "e", "r", "v", "i", "e", "w">>,
      <<"s", "u", "m", "m", "a", "r", "y">>,
      <<"i", "n", "t", "r", "o", "d", "u", "c", "t", "i", "o", "n">>,
      <<"b", "a", "c", "k", "g", "r", "o", "u", "n", "d">> }

\* "how did", "when did", "where did", "why did", "what happened", "specific",
\* "exact", "detailed", "specifically"
detail_indicators ==
    { <<"h", "o", "w", " ", "d", "i", "d">>,
      <<"w", "h", "e", "n", " ", "d", "i", "d">>,
      <<"w", "h", "e", "r", "e", " ", "d", "i", "d">>,
      <<"w", "h", "y", " ", "d", "i", "d">>,
      <<"w", "h", "a", "t", " ", "h", "a", "p", "p", "e", "n", "e", "d">>,
      <<"s", "p", "e", "c", "i", "f", "i", "c">>,
      <<"e", "x", "a", "c", "t">>,
      <<"d", "e", "t", "a", "i", "l", "e", "d">>,
      <<"s", "p", "e", "c", "i", "f", "i", "c", "a", "l", "l", "y">> }

\* "book", "chapter", "part", "canto", "section"
book_indicators ==
    { <<"b", "o", "o", "k">>,
      <<"c", "h", "a", "p", "t", "e", "r">>,
      <<"p", "a", "r", "t">>,
      <<"c", "a", "n", "t", "o">>,
      <<"s", "e", "c", "t", "i", "o", "n">> }

\* The phrases questions are put together from:
\* "Summarize", "Book 1", "Who is", "Athena?", "What happened", "the summary",
\* "How did", "ODYSSEUS", "Apart", "the suitors", "What is", "the capital of France"
Phrases ==
    << <<"S", "u", "m", "m", "a", "r", "i", "z", "e">>,
       <<"B", "o", "o", "k", " ", "1">>,
       <<"W", "h", "o", " ", "i", "s">>,
       <<"A", "t", "h", "e", "n", "a", "?">>,
       <<"W", "h", "a", "t", " ", "h", "a", "p", "p", "e", "n", "e", "d">>,
       <<"t", "h", "e", " ", "s", "u", "m", "m", "a", "r", "y">>,
       <<"H", "o", "w", " ", "d", "i", "d">>,
       <<"O", "D", "Y", "S", "S", "E", "U", "S">>,
       <<"A", "p", "a", "r", "t">>,
       <<"t", "h", "e", " ", "s", "u", "i", "t", "o", "r", "s">>,
       <<"W", "h", "a", "t", " ", "i", "s">>,
       <<"t", "h", "e", " ", "c", "a", "p", "i", "t", "a", "l", " ", "o", "f", " ", "F", "r", "a", "n", "c", "e">> >>

\* the phrases of a question joined by single blanks
RECURSIVE JoinPhrases(_)
JoinPhrases(ps) ==
    IF ps = <<>> THEN <<>>
    ELSE IF Len(ps) = 1 THEN Phrases[ps[1]]
    ELSE Phrases[ps[1]] \o <<" ">> \o JoinPhrases(Tail(ps))

\* the questions asked
Questions == {JoinPhrases(ps) : ps \in SeqsUpTo(1..Len(Phrases), MaxPhrases)}

\* question["k_chunks"] and question["similarity_threshold"] of a request: any
\* int and any float are accepted
KChunks == 0..PlMaxK
SimilarityThresholds == {-500, 0, 250}

QuestionTypes == {"character", "overview", "detail", "structural", "general"}

\* the members of a set on which `for x in set: if x in question_lower: return`
\* can return: the set is iterated in hash order, so any member that matches
\* can be the first one met
LoopHits(indicators, question_lower) ==
    {x \in indicators : Contains(x, question_lower)}

\* _analyze_question with the detail loop run ahead of the overview loop
_analyze_question_DetailFirst(question) ==
    LET question_lower == lower(question)
    IN  IF LoopHits(odyssey_characters, question_lower) # {}
        THEN {<<"character", x>> : x \in LoopHits(odyssey_characters, question_lower)}
        ELSE IF LoopHits(detail_indicators, question_lower) # {}
        THEN {<<"detail", x>> : x \in LoopHits(detail_indicators, question_lower)}
        ELSE IF LoopHits(overview_indicators, question_lower) # {}
        THEN {<<"overview", x>> : x \in LoopHits(overview_indicators, question_lower)}
        ELSE IF LoopHits(book_indicators, question_lower) # {}
        THEN {<<"structural", x>> : x \in LoopHits(book_indicators, question_lower)}
        ELSE {<<"general", <<>>>>}

\* _analyze_question(question): the pairs <<returned type, member the loop
\* returned on>> the call can end with
_analyze_question(question) ==
    LET question_lower == lower(question)
    IN  IF LoopHits(odyssey_characters, question_lower) # {}
        THEN {<<"character", x>> : x \in LoopHits(odyssey_characters, question_lower)}
        ELSE IF LoopHits(overview_indicators, question_lower) # {}
        THEN {<<"overview", x>> : x \in LoopHits(overview_indicators, question_lower)}
        ELSE IF LoopHits(detail_indicators, question_lower) # {}
        THEN {<<"detail", x>> : x \in LoopHits(detail_indicators, question_lower)}
        ELSE IF LoopHits(book_indicators, question_lower) # {}
        THEN {<<"structural", x>> : x \in LoopHits(book_indicators, question_lower)}
        ELSE {<<"general", <<>>>>}

\* caps of k: min(k, 3) for overview, min(k, 7) for detail
OverviewMaxK == 3
DetailMaxK == 7
\* threshold factors in tenths: 0.9 for overview, 0.8 for structural
OverviewTenths == 9
StructuralTenths == 8

Kwargs(k, threshold, include_parent, include_children) ==
    [k |-> k, threshold |-> threshold, include_parent |-> include_parent,
     include_children |-> include_children]

\* _get_retrieval_kwargs with the overview row keeping k
_get_retrieval_kwargs_OverviewKeepsK(question_type, k, threshold) ==
    IF question_type = "overview"
    THEN Kwargs(k, TimesTenths(threshold, OverviewTenths), TRUE, FALSE)
    ELSE IF question_type = "detail"
    THEN Kwargs(Min(k, DetailMaxK), threshold, TRUE, TRUE)
    ELSE IF question_type = "character"
    THEN Kwargs(k, threshold, TRUE, FALSE)
    ELSE IF question_type = "structural"
    THEN Kwargs(k, TimesTenths(threshold, StructuralTenths), FALSE, TRUE)
    ELSE Kwargs(k, threshold, TRUE, FALSE)

\* _get_retrieval_kwargs(question_type, k, threshold)
_get_retrieval_kwargs(question_type, k, threshold) ==
    IF question_type = "overview"
    THEN Kwargs(Min(k, OverviewMaxK), TimesTenths(threshold, OverviewTenths), TRUE, FALSE)
    ELSE IF question_type = "detail"
    THEN Kwargs(Min(k, DetailMaxK), threshold, TRUE, TRUE)
    ELSE IF question_type = "character"
    THEN Kwargs(k, threshold, TRUE, FALSE)
    ELSE IF question_type = "structural"
    THEN Kwargs(k, TimesTenths(threshold, StructuralTenths), FALSE, TRUE)
    ELSE Kwargs(k, threshold, TRUE, FALSE)

\* answer_question(question, k, threshold): the question is analysed and the
\* retrieval parameters are derived from its type
AnswerQuestion ==
    /\ component = "pipeline"
    /\ pl_pc = "idle"
    /\ \E q \in Questions :
        \E returned \in _analyze_question(q), k \in KChunks,
           threshold \in SimilarityThresholds :
            /\ pl_question' = q
            /\ pl_question_type' = returned[1]
            /\ matched' = returned[2]
            /\ pl_args' = [k |-> k, threshold |-> threshold]
            /\ retrieval_kwargs' = _get_retrieval_kwargs(returned[1], k, threshold)
    /\ pl_pc' = "answered"
    /\ UNCHANGED <<component, notPL>>

\* _get_retrieval_kwargs called with a type of the caller's choice, the
\* default strategy name "adaptive" included
GetRetrievalKwargs ==
    /\ component = "pipeline"
    /\ pl_pc = "idle"
    /\ \E type \in QuestionTypes \cup {"adaptive"}, k \in KChunks,
          threshold \in SimilarityThresholds :
        /\ pl_question_type' = type
        /\ pl_args' = [k |-> k, threshold |-> threshold]
        /\ retrieval_kwargs' = _get_retrieval_kwargs(type, k, threshold)
    /\ pl_pc' = "parametrized"
    /\ UNCHANGED <<component, pl_question, matched, notPL>>

\* the caller has taken the result
PlReturn ==
    /\ component = "pipeline"
    /\ pl_pc # "idle"
    /\ pl_pc' = "idle"
    /\ pl_question' = <<>>
    /\ pl_question_type' = ""
    /\ matched' = <<>>
    /\ pl_args' = <<>>
    /\ retrieval_kwargs' = <<>>
    /\ UNCHANGED <<component, notPL>>

\* ------------------------------------------------------------ the HTTP API
\* Number of phrases that are asked as questions of /ask requests: the first
\* five are one question of every type.
MaxApiQuestions == 5

\* The questions and strategies of /ask requests.
ApiQuestions == {JoinPhrases(<<i>>) : i \in 1..Min(MaxApiQuestions, Len(Phrases))}
ApiStrategies == {"adaptive", "overview", "detail", "character", "structural"}

\* status codes of the responses
StatusOk == 200
StatusBadRequest == 400
StatusNotFound == 404
StatusServerError == 500

Request(endpoint, question, strategy, k, threshold) ==
    [endpoint |-> endpoint, question |-> question, strategy |-> strategy,
     k |-> k, threshold |-> threshold]

\* a response: its status and, for an answer, the fields of the body the
\* claims read
Response(status, question_type, chunks_retrieved, sources) ==
    [status |-> status, question_type |-> question_type,
     chunks_retrieved |-> chunks_retrieved, sources |-> sources]

ErrorResponse(status) == Response(status, "", 0, <<>>)

\* the source entries built from the retrieved results
Sources(retrieved_results) ==
    [i \in 1..Len(retrieved_results) |->
        [chunk_id |-> retrieved_results[i].chunk_id,
         similarity |-> retrieved_results[i].similarity,
         level |-> retrieved_results[i].level,
         has_parent |-> retrieved_results[i].parent_text # None,
         child_count |-> retrieved_results[i].child_count]]

\* the dict answer_question returns, as its key set and the fields read later
answer_question(question_type, retrieved_results) ==
    IF retrieved_results = <<>>
    THEN [keys |-> {"answer", "sources", "question_type", "strategy", "retrieval_params"},
          question_type |-> question_type, chunks_retrieved |-> 0, sources |-> <<>>]
    ELSE [keys |-> {"answer", "sources", "question_type", "strategy", "retrieval_params",
                    "chunks_retrieved"},
          question_type |-> question_type, chunks_retrieved |-> Len(retrieved_results),
          sources |-> Sources(retrieved_results)]

\* result_data of the explicit-strategy branch of ask_question
ExplicitResultData(question_type, retrieved_results) ==
    [keys |-> {"answer", "strategy", "question_type", "chunks_retrieved", "sources"},
     question_type |-> question_type, chunks_retrieved |-> Len(retrieved_results),
     sources |-> Sources(retrieved_results)]

\* the fields AnswerResponse requires
AnswerResponseRequired == {"answer", "strategy", "question_type", "chunks_retrieved", "sources"}

\* AnswerResponse(**result_data, system_stats=...): the responses it can lead
\* to.  A missing required field is a validation error, which the handler turns
\* into status 500.  Source.level is declared str and is given the chunk's int
\* level: pydantic 1 converts it, pydantic 2 rejects it.
AnswerResponses(result_data) ==
    IF ~(AnswerResponseRequired \subseteq result_data.keys)
    THEN {ErrorResponse(StatusServerError)}
    ELSE {Response(StatusOk, result_data.question_type, result_data.chunks_retrieved,
                   result_data.sources)}
         \cup (IF result_data.sources # <<>> THEN {ErrorResponse(StatusServerError)} ELSE {})

\* a failed POST /initialize that uninstalls the pipeline
InitializeRejected_Uninstalling ==
    /\ component = "api"
    /\ api_request = None
    /\ \E status \in {StatusBadRequest, StatusNotFound, StatusServerError} :
        api_response' = <<ErrorResponse(status)>>
    /\ api_request' = <<Request("/initialize", <<>>, "", 0, 0)>>
    /\ _pipeline' = None
    /\ UNCHANGED <<component, srVars, notAPI>>

\* POST /initialize without GOOGLE_API_KEY, or with a path that does not exist,
\* or with the pipeline constructor raising: the global is left alone
InitializeRejected ==
    /\ component = "api"
    /\ api_request = None
    /\ \E status \in {StatusBadRequest, StatusNotFound, StatusServerError} :
        api_response' = <<ErrorResponse(status)>>
    /\ api_request' = <<Request("/initialize", <<>>, "", 0, 0)>>
    /\ UNCHANGED <<component, _pipeline, srVars, notAPI>>

\* POST /initialize: a new pipeline is built from the file and installed
InitializeSystem ==
    /\ component = "api"
    /\ api_request = None
    /\ \E list \in ChunkLists :
        /\ _pipeline' = <<list>>
        /\ sr_chunks' = list
        /\ chunk_map' = ChunkMapOf(list)
        /\ parent_map' = BuildParentMap(list, 1, EmptyMap)
        /\ child_map' = BuildChildMap(list, 1, EmptyMap)
        /\ index' = <<Len(list)>>
    /\ builds' = 1
    /\ api_request' = <<Request("/initialize", <<>>, "", 0, 0)>>
    /\ api_response' = <<Response(StatusOk, "", 0, <<>>)>>
    /\ UNCHANGED <<component, sr_call, results, sr_outcome, notAPI>>

\* POST /ask while no pipeline is installed
AskUninitialized ==
    /\ component = "api"
    /\ api_request = None
    /\ _pipeline = None
    /\ \E q \in ApiQuestions, strategy \in ApiStrategies, k \in 1..MaxK,
          threshold \in Thresholds :
        api_request' = <<Request("/ask", q, strategy, k, threshold)>>
    /\ api_response' = <<ErrorResponse(StatusBadRequest)>>
    /\ UNCHANGED <<component, _pipeline, srVars, notAPI>>

\* POST /ask on the installed pipeline
AskQuestion ==
    /\ component = "api"
    /\ api_request = None
    /\ _pipeline # None
    /\ \E q \in ApiQuestions, strategy \in ApiStrategies :
        \E analysed \in _analyze_question(q), k \in 1..MaxK, threshold \in Thresholds :
            LET question_type == IF strategy # "adaptive" THEN strategy ELSE analysed[1]
                kwargs == _get_retrieval_kwargs(question_type, k, threshold)
            IN  \E sim \in [ChunkIds(sr_chunks) -> Scores] :
                \E found \in SearchResults(sim, sr_chunks, index[1],
                                           Min(kwargs.k * 3, Len(sr_chunks))) :
                    LET a == Call(sim, kwargs.k, kwargs.threshold, kwargs.include_parent,
                                  kwargs.include_children, found)
                        retrieved_results == Retrieved(a)
                        result_data ==
                            IF strategy # "adaptive"
                            THEN ExplicitResultData(question_type, retrieved_results)
                            ELSE answer_question(question_type, retrieved_results)
                    IN  /\ api_request' = <<Request("/ask", q, strategy, k, threshold)>>
                        /\ results' = retrieved_results
                        /\ \E response \in AnswerResponses(result_data) :
                            api_response' = <<response>>
    /\ UNCHANGED <<component, _pipeline, index, sr_chunks, chunk_map, parent_map,
                   child_map, builds, sr_call, sr_outcome, notAPI>>

\* POST /reset
ResetSystem ==
    /\ component = "api"
    /\ api_request = None
    /\ _pipeline' = None
    /\ index' = None
    /\ sr_chunks' = <<>>
    /\ chunk_map' = EmptyMap
    /\ parent_map' = EmptyMap
    /\ child_map' = EmptyMap
    /\ builds' = 0
    /\ api_request' = <<Request("/reset", <<>>, "", 0, 0)>>
    /\ api_response' = <<Response(StatusOk, "", 0, <<>>)>>
    /\ UNCHANGED <<component, sr_call, results, sr_outcome, notAPI>>

\* the response has been sent
SendResponse ==
    /\ component = "api"
    /\ api_request # None
    /\ api_request' = None
    /\ api_response' = None
    /\ results' = <<>>
    /\ UNCHANGED <<component, _pipeline, index, sr_chunks, chunk_map, parent_map,
                   child_map, builds, sr_call, sr_outcome, notAPI>>

\* ------------------------------------------ concurrent queries on a retriever
\* Threads calling one retriever at the same time.
Threads == {"t1", "t2"}

\* The calls the threads make: queries that score every chunk differently (so
\* that index.search has one possible answer), with these k and thresholds.
ConcurrentScores == <<-450, 220, 600, 900>>
ConcurrentK == {1, 2}
HrConcurrentK == {2}
ConcurrentThresholds == {250}

ConcurrentSims(list) ==
    {[id \in ChunkIds(list) |->
        LET place == CHOOSE i \in 1..Len(list) : list[i].chunk_id = id
        IN  ConcurrentScores[((place + shift) % Len(list)) + 1]] :
     shift \in 0..(Len(list) - 1)}

IdleThread ==
    [pc |-> "idle", a |-> NoCall, i |-> 0, res |-> <<>>, seen_chunks |-> {},
     returned |-> <<>>]

HrIdleThread ==
    [pc |-> "idle", a |-> NoCall, top_down |-> <<>>, bottom_up |-> <<>>, returned |-> <<>>]

\* the state of the two retrievers that queries must leave alone
BuiltState == <<index, sr_chunks, chunk_map, parent_map, child_map, hr_chunks, level_indices>>

\* create_embeddings(chunks) on the fresh SimpleHierarchicalRetriever, before
\* any query
BuildForThreads ==
    /\ component = "concurrent"
    /\ index = None
    /\ \E list \in ChunkLists :
        /\ sr_chunks' = list
        /\ chunk_map' = ChunkMapOf(list)
        /\ parent_map' = BuildParentMap(list, 1, parent_map)
        /\ child_map' = BuildChildMap(list, 1, child_map)
        /\ index' = <<Len(list)>>
    /\ builds' = builds + 1
    /\ UNCHANGED <<component, sr_call, results, sr_outcome, hrVars, sr_threads, hr_threads,
                   notCC>>
    /\ built' = <<BuiltState'>>

\* create_multi_level_embeddings(chunks) on the fresh HierarchicalRetriever,
\* before any query
HrBuildForThreads ==
    /\ component = "concurrent"
    /\ hr_chunks = <<>>
    /\ \E list \in ChunkLists :
        /\ hr_chunks' = list
        /\ level_indices' = LevelChunks(list)
    /\ UNCHANGED <<component, srVars, hr_call, hr_results, sr_threads, hr_threads, notCC>>
    /\ built' = <<BuiltState'>>

\* retrieve_with_context up to its loop: the index check, the query encoding
\* and the search
QueryStart(t) ==
    /\ component = "concurrent"
    /\ index # None
    /\ sr_threads[t].pc = "idle"
    /\ hr_threads[t].pc = "idle"
    /\ \E sim \in ConcurrentSims(sr_chunks), k \in ConcurrentK,
          threshold \in ConcurrentThresholds, include_children \in BOOLEAN :
        \E found \in SearchResults(sim, sr_chunks, index[1], Min(k * 3, Len(sr_chunks))) :
            sr_threads' = [sr_threads EXCEPT ![t] =
                [IdleThread EXCEPT !.pc = "loop", !.i = 1,
                                   !.a = Call(sim, k, threshold, TRUE, include_children, found)]]
    /\ UNCHANGED <<component, srVars, hrVars, hr_threads, built, notCC>>

\* one iteration of the loop of retrieve_with_context
QueryIterate(t) ==
    /\ component = "concurrent"
    /\ sr_threads[t].pc = "loop"
    /\ sr_threads[t].i <= Len(sr_threads[t].a.found)
    /\ LET th == sr_threads[t]
           it == LoopIteration(th.a.found, th.i, th.res, th.seen_chunks, th.a)
       IN  /\ sr_threads' = [sr_threads EXCEPT ![t] =
                   [th EXCEPT !.pc = IF it.stop THEN "collected" ELSE "loop",
                              !.i = th.i + 1, !.res = it.results,
                              !.seen_chunks = it.seen_chunks]]
           /\ child_map' = IF it.looked_up = None THEN child_map
                           ELSE ChildMapAfterGet(child_map, it.looked_up[1])
    /\ UNCHANGED <<component, index, sr_chunks, chunk_map, parent_map, builds, sr_call,
                   results, sr_outcome, hrVars, hr_threads, built, notCC>>

\* results.sort(...) and return results[:k]
QueryReturn(t) ==
    /\ component = "concurrent"
    /\ \/ sr_threads[t].pc = "collected"
       \/ sr_threads[t].pc = "loop" /\ sr_threads[t].i > Len(sr_threads[t].a.found)
    /\ LET th == sr_threads[t]
       IN  sr_threads' = [sr_threads EXCEPT ![t] =
               [th EXCEPT !.pc = "returned",
                          !.returned = Prefix(SortBySimilarity(th.res), th.a.k)]]
    /\ UNCHANGED <<component, srVars, hrVars, hr_threads, built, notCC>>

\* the caller has taken the list
QueryDone(t) ==
    /\ component = "concurrent"
    /\ sr_threads[t].pc = "returned"
    /\ sr_threads' = [sr_threads EXCEPT ![t] = IdleThread]
    /\ UNCHANGED <<component, srVars, hrVars, hr_threads, built, notCC>>

\* hierarchical_retrieve up to its first retrieval: top_down_retrieval for the
\* strategies top_down and hybrid, bottom_up_retrieval for bottom_up
HrQueryStart(t) ==
    /\ component = "concurrent"
    /\ hr_chunks # <<>>
    /\ hr_threads[t].pc = "idle"
    /\ sr_threads[t].pc = "idle"
    /\ \E sim \in ConcurrentSims(hr_chunks), k \in HrConcurrentK,
          threshold \in ConcurrentThresholds, strategy \in Strategies :
        LET quota == IF strategy = "hybrid" THEN k \div 2 ELSE k
        IN  \E first \in IF strategy = "bottom_up"
                         THEN bottom_up_retrieval(sim, quota, threshold)
                         ELSE top_down_retrieval(sim, quota, threshold) :
                hr_threads' = [hr_threads EXCEPT ![t] =
                    [HrIdleThread EXCEPT
                        !.pc = IF strategy = "hybrid" THEN "half" ELSE "retrieved",
                        !.a = HrCall(sim, k, threshold, strategy, <<>>, <<>>, ""),
                        !.top_down = IF strategy = "bottom_up" THEN <<>> ELSE first,
                        !.bottom_up = IF strategy = "bottom_up" THEN first ELSE <<>>]]
    /\ UNCHANGED <<component, srVars, hrVars, sr_threads, built, notCC>>

\* the bottom_up_retrieval of the hybrid strategy
HrQuerySecond(t) ==
    /\ component = "concurrent"
    /\ hr_threads[t].pc = "half"
    /\ \E second \in bottom_up_retrieval(hr_threads[t].a.sim, hr_threads[t].a.k \div 2,
                                         hr_threads[t].a.threshold) :
        hr_threads' = [hr_threads EXCEPT ![t] =
            [hr_threads[t] EXCEPT !.pc = "retrieved", !.bottom_up = second]]
    /\ UNCHANGED <<component, srVars, hrVars, sr_threads, built, notCC>>

\* what hierarchical_retrieve returns for the lists retrieved
HrEnriched(strategy, top_down, bottom_up, k) ==
    LET r == IF strategy = "top_down" THEN top_down
             ELSE IF strategy = "bottom_up" THEN bottom_up
             ELSE _merge_results(top_down, bottom_up, k)
    IN  [i \in 1..Len(r) |-> enrich_with_hierarchy(r[i])]

\* _merge_results, for hybrid, and enrich_with_hierarchy of every result
HrQueryReturn(t) ==
    /\ component = "concurrent"
    /\ hr_threads[t].pc = "retrieved"
    /\ LET th == hr_threads[t]
       IN  hr_threads' = [hr_threads EXCEPT ![t] =
               [th EXCEPT !.pc = "returned",
                          !.returned = HrEnriched(th.a.strategy, th.top_down, th.bottom_up,
                                                  th.a.k)]]
    /\ UNCHANGED <<component, srVars, hrVars, sr_threads, built, notCC>>

\* the caller has taken the list
HrQueryDone(t) ==
    /\ component = "concurrent"
    /\ hr_threads[t].pc = "returned"
    /\ hr_threads' = [hr_threads EXCEPT ![t] = HrIdleThread]
    /\ UNCHANGED <<component, srVars, hrVars, sr_threads, built, notCC>>

\* ----------------------------------------------------- save_index / load_index
\* The ids, texts and levels written are str and int values, the maps are dicts
\* keyed by str and the lists are lists of str: json.dump followed by json.load
\* gives them back as they were, and write_index / read_index gives back an
\* index of the same vectors.
NoFiles == [index |-> None, chunks |-> None, hierarchy |-> None]

\* save_index(index_path, chunks_path, hierarchy_path) on a built retriever;
\* with hierarchy_path = None the hierarchy file is not written
SaveIndex ==
    /\ component = "store"
    /\ st_pc = "original"
    /\ index # None
    /\ \E with_hierarchy_path \in BOOLEAN :
        files' = [index |-> index,
                  chunks |-> <<sr_chunks>>,
                  hierarchy |-> IF with_hierarchy_path
                                THEN <<[parent_map |-> parent_map, child_map |-> child_map]>>
                                ELSE files.hierarchy]
    /\ saved_maps' = <<[parent_map |-> parent_map, child_map |-> child_map]>>
    /\ st_pc' = "saved"
    /\ UNCHANGED <<component, srVars, probe, actual, notST>>

\* the probe query on the retriever that was saved; the probes score every
\* chunk differently
ProbeOriginal ==
    /\ component = "store"
    /\ st_pc = "saved"
    /\ \E sim \in ConcurrentSims(sr_chunks), k \in ConcurrentK,
          threshold \in ConcurrentThresholds, include_children \in BOOLEAN :
        \E found \in SearchResults(sim, sr_chunks, index[1], Min(k * 3, Len(sr_chunks))) :
            LET a == Call(sim, k, threshold, TRUE, include_children, found)
            IN  probe' = <<[a |-> a, results |-> Retrieved(a)]>>
    /\ st_pc' = "probed"
    /\ UNCHANGED <<component, srVars, files, saved_maps, actual, notST>>

\* load_index(index_path, chunks_path, hierarchy_path): every attribute that
\* create_embeddings sets is assigned, so a fresh retriever and a used one end
\* in the same state.  The snapshot is read when hierarchy_path is given and the
\* file exists; otherwise the maps are rebuilt from the chunks.
LoadIndex ==
    /\ component = "store"
    /\ st_pc \in {"saved", "probed"}
    /\ \E with_hierarchy_path \in BOOLEAN :
        LET list == files.chunks[1]
        IN  /\ index' = files.index
            /\ sr_chunks' = list
            /\ chunk_map' = ChunkMapOf(list)
            /\ IF with_hierarchy_path /\ files.hierarchy # None
               THEN /\ parent_map' = files.hierarchy[1].parent_map
                    /\ child_map' = files.hierarchy[1].child_map
               ELSE /\ parent_map' = BuildParentMap(list, 1, EmptyMap)
                    /\ child_map' = BuildChildMap(list, 1, EmptyMap)
    /\ st_pc' = "reloaded"
    /\ UNCHANGED <<component, builds, sr_call, results, sr_outcome, files, saved_maps, probe,
                   actual, notST>>

\* the probe query on the reloaded retriever: the index holds the same vectors,
\* so index.search returns what it returned before
ProbeReloaded ==
    /\ component = "store"
    /\ st_pc = "reloaded"
    /\ probe # None
    /\ actual' = <<Retrieved(probe[1].a)>>
    /\ st_pc' = "compared"
    /\ UNCHANGED <<component, srVars, files, saved_maps, probe, notST>>

\* the reloaded retriever goes on being used: further create_embeddings,
\* save_index and load_index calls
UseReloaded ==
    /\ component = "store"
    /\ st_pc \in {"reloaded", "compared"}
    /\ st_pc' = "original"
    /\ saved_maps' = None
    /\ probe' = None
    /\ actual' = None
    /\ UNCHANGED <<component, srVars, files, notST>>

\* --------------------------------------------- from the HTML to the results
\* "BOOK I", "Odysseus sails home", "Penelope waits"
ToyDocument ==
    << T("BOOK I", 2, 6, FALSE), T("plain", 3, 19, FALSE), T("plain", 2, 14, FALSE) >>

EndToEndDocuments == RetrieverDocs \cup {ToyDocument}

\* thresholds of the calls: 0.1 and 0.25
EndToEndThresholds == {100, 250}

\* process_html(), create_semantic_chunks() with the default configuration and
\* create_embeddings(chunks) on a fresh retriever.  With no chunk,
\* self.model.encode([]) gives an array without a second dimension; whether
\* faiss.normalize_L2 and index.add accept it depends on the installed numpy
\* and faiss: create_embeddings raises after assigning chunks and chunk_map, or
\* leaves an index of no vector.
IndexDocument ==
    /\ component = "endtoend"
    /\ document = None
    /\ \E elements \in EndToEndDocuments, raises \in BOOLEAN :
        LET list == SemanticChunksOf(elements)
        IN  /\ raises => list = <<>>
            /\ document' = <<elements>>
            /\ sr_chunks' = list
            /\ chunk_map' = ChunkMapOf(list)
            /\ parent_map' = BuildParentMap(list, 1, parent_map)
            /\ child_map' = BuildChildMap(list, 1, child_map)
            /\ index' = IF raises THEN None ELSE <<Len(list)>>
    /\ builds' = builds + 1
    /\ UNCHANGED <<component, sr_call, results, sr_outcome, notE2E>>

\* retrieve_with_context on the retriever of the document.  Without an index it
\* raises RuntimeError; on an index of no vector index.search is asked for
\* min(k * 3, 0) = 0 entries, which the installed faiss refuses or answers with
\* nothing.
RetrieveFromDocument ==
    /\ component = "endtoend"
    /\ document # None
    /\ sr_call = NoCall
    /\ \E sim \in [ChunkIds(sr_chunks) -> Scores], k \in 1..MaxK,
          threshold \in EndToEndThresholds, include_parent, include_children \in BOOLEAN,
          raises \in BOOLEAN :
        \E found \in IF index = None THEN {<<>>}
                     ELSE SearchResults(sim, sr_chunks, index[1],
                                        Min(k * 3, Len(sr_chunks))) :
            LET a == Call(sim, k, threshold, include_parent, include_children, found)
            IN  /\ index = None => raises
                /\ raises => index \in {None, <<0>>}
                /\ sr_call' = a
                /\ results' = IF raises THEN <<>> ELSE Retrieved(a)
                /\ sr_outcome' = IF raises THEN "raised" ELSE "returned"
    /\ UNCHANGED <<component, index, sr_chunks, chunk_map, parent_map, child_map,
                   builds, document, notE2E>>

\* the caller has taken the outcome of the call
ReturnFromDocument ==
    /\ component = "endtoend"
    /\ sr_call # NoCall
    /\ sr_call' = NoCall
    /\ results' = <<>>
    /\ sr_outcome' = ""
    /\ UNCHANGED <<component, index, sr_chunks, chunk_map, parent_map, child_map,
                   builds, document, notE2E>>

\* ------------------------------------- _collect_subtree_text with a budget
\* The elements of the documents whose registries are rolled up, and the
\* values of max_words (create_semantic_chunks passes its max_words on).
RollupSegments ==
    { T("BOOK I", 2, 6, FALSE), T("1.", 3, 14, FALSE),
      T("plain", 35, 200, FALSE), T("plain", 60, 340, FALSE) }

RollupDocs == SeqsUpTo(RollupSegments, MaxSegments)

RollupBudgets == {50, 100, 300}

\* process_html() on a fresh processor, then
\* _collect_subtree_text(node_id, max_depth, max_words) as
\* create_semantic_chunks calls it: depth 2 on a root, depth 3 on a level-2 node
CollectSubtreeText ==
    /\ component = "rollup"
    /\ rollup = None
    /\ \E elements \in RollupDocs, budget \in RollupBudgets :
        LET st == ProcessAll(BuildState(<<>>, <<>>, NoHierarchy, 0), elements, 1)
        IN  \E i \in 1..Len(st.nodes) :
                /\ st.nodes[i].level \in {1, 2}
                /\ LET max_depth == IF st.nodes[i].level = 1 THEN 2 ELSE 3
                   IN  rollup' = <<[nodes |-> st.nodes, node_id |-> st.nodes[i].id,
                                    max_depth |-> max_depth, max_words |-> budget,
                                    text |-> _collect_subtree_text(st.nodes, st.nodes[i].id,
                                                                   max_depth, budget)]>>
    /\ UNCHANGED <<component, notRU>>

\* the caller has taken the text
RollupReturn ==
    /\ component = "rollup"
    /\ rollup # None
    /\ rollup' = None
    /\ UNCHANGED <<component, notRU>>

\* ------------------------------------------- the ancestor walk, step by step
\* The chunk sets create_multi_level_embeddings may be given: every chunk names
\* as metadata.parent_id nothing, a chunk of the set (itself included, so links
\* may form a cycle) or an id no chunk has.
WalkIds == {<<"book", 0>>, <<"section", 1>>, <<"para", 2>>}
WalkParents == WalkIds \cup {None, <<"subsection", 3>>}
WalkChunkMaps ==
    {[id \in WalkIds |-> [chunk_id |-> id, parent_id |-> links[id]]] :
        links \in [WalkIds -> WalkParents]}

\* the number of loop iterations followed one by one, more than there are
\* chunks: a walk whose loop condition still holds then has met some chunk
\* twice, so the links lead back to that chunk again and again
MaxWalkSteps == 5

\* enrich_with_hierarchy(chunk, similarity) up to its loop
EnrichStart ==
    /\ component = "walk"
    /\ walk = None
    /\ \E cmap \in WalkChunkMaps, chunk_id \in WalkIds :
        walk' = <<[chunk_map |-> cmap, chunk_id |-> chunk_id, pc |-> "walking",
                   parent_chunks |-> <<>>, depth |-> 0,
                   current |-> cmap[chunk_id].parent_id]>>
    /\ UNCHANGED <<component, notWK>>

\* while current and current in self.chunk_map: one iteration
WalkStep ==
    /\ component = "walk"
    /\ walk # None
    /\ walk[1].pc = "walking"
    /\ walk[1].current # None /\ walk[1].current \in DOMAIN walk[1].chunk_map
    /\ walk[1].depth < MaxWalkSteps
    /\ walk' = <<[walk[1] EXCEPT
                    !.parent_chunks = Append(walk[1].parent_chunks, walk[1].current),
                    !.current = walk[1].chunk_map[walk[1].current].parent_id,
                    !.depth = walk[1].depth + 1]>>
    /\ UNCHANGED <<component, notWK>>

\* the loop on a cycle of parent_id links: the condition never becomes false,
\* parent_chunks and depth grow without end and the call does not return
WalkForever ==
    /\ component = "walk"
    /\ walk # None
    /\ walk[1].pc = "walking"
    /\ walk[1].current # None /\ walk[1].current \in DOMAIN walk[1].chunk_map
    /\ walk[1].depth = MaxWalkSteps
    /\ MaxWalkSteps > Cardinality(WalkIds)
    /\ walk' = <<[walk[1] EXCEPT !.pc = "looping"]>>
    /\ UNCHANGED <<component, notWK>>

\* the loop condition is false: the RetrievalResult is built and returned
WalkExit ==
    /\ component = "walk"
    /\ walk # None
    /\ walk[1].pc = "walking"
    /\ ~(walk[1].current # None /\ walk[1].current \in DOMAIN walk[1].chunk_map)
    /\ walk' = <<[walk[1] EXCEPT !.pc = "returned"]>>
    /\ UNCHANGED <<component, notWK>>

\* the caller has taken the result
EnrichReturn ==
    /\ component = "walk"
    /\ walk # None
    /\ walk[1].pc = "returned"
    /\ walk' = None
    /\ UNCHANGED <<component, notWK>>

\* ========================================================= specifications
\* The value every component's variables have while the component is not in use.
HpIdle ==
    /\ doc = <<>>
    /\ pos = 0
    /\ runs = 0
    /\ hp_pc = "idle"
    /\ nodes = <<>>
    /\ root_nodes = <<>>
    /\ current_hierarchy = NoHierarchy
    /\ node_id = 0
    /\ chunks = <<>>
    /\ candidates = <<>>

AdpIdle ==
    /\ adp_pc = "idle"
    /\ adp_nodes = <<>>
    /\ adp_root_nodes = <<>>
    /\ adp_hierarchy = [l \in 0..(HierarchySlots - 1) |-> None]
    /\ adp_node_id = 0

SrIdle ==
    /\ index = None
    /\ sr_chunks = <<>>
    /\ chunk_map = EmptyMap
    /\ parent_map = EmptyMap
    /\ child_map = EmptyMap
    /\ builds = 0
    /\ sr_call = NoCall
    /\ results = <<>>
    /\ sr_outcome = ""

ErIdle ==
    /\ er_index = None
    /\ er_chunks = <<>>
    /\ er_call = NoCall
    /\ er_results = <<>>

HrIdle ==
    /\ hr_chunks = <<>>
    /\ level_indices = EmptyMap
    /\ hr_call = NoCall
    /\ hr_results = <<>>

E2EIdle == document = None

RuIdle == rollup = None

WkIdle == walk = None

PdfIdle ==
    /\ pdf_pc = "idle"
    /\ pdf_nodes = <<>>
    /\ pdf_root_nodes = <<>>
    /\ pdf_hierarchy = [l \in 0..(HierarchySlots - 1) |-> None]
    /\ pdf_node_id = 0
    /\ current_text = 0
    /\ pdf_read = 0

StIdle ==
    /\ st_pc = "original"
    /\ files = NoFiles
    /\ saved_maps = None
    /\ probe = None
    /\ actual = None

CcIdle ==
    /\ sr_threads = [t \in Threads |-> IdleThread]
    /\ hr_threads = [t \in Threads |-> HrIdleThread]
    /\ built = None

ApiIdle ==
    /\ _pipeline = None
    /\ api_request = None
    /\ api_response = None

PlIdle ==
    /\ pl_pc = "idle"
    /\ pl_question = <<>>
    /\ pl_question_type = ""
    /\ matched = <<>>
    /\ pl_args = <<>>
    /\ retrieval_kwargs = <<>>

\* HTMLHierarchicalProcessor.__init__ on a file whose elements are `doc`
InitHP ==
    /\ component = "html"
    /\ doc \in SeqsUpTo(Segments, MaxSegments)
    /\ pos = 0
    /\ runs = 0
    /\ hp_pc = "idle"
    /\ nodes = <<>>
    /\ root_nodes = <<>>
    /\ current_hierarchy = NoHierarchy
    /\ node_id = 0
    /\ chunks = <<>>
    /\ candidates = <<>>
    /\ AdpIdle /\ SrIdle /\ ErIdle /\ HrIdle /\ PlIdle /\ ApiIdle /\ CcIdle /\ StIdle /\ E2EIdle
    /\ PdfIdle /\ RuIdle /\ WkIdle

\* AdvancedDataProcessor.__init__ followed by the start of process_html
InitADP ==
    /\ component = "adp"
    /\ adp_pc = "running"
    /\ adp_nodes = <<>>
    /\ adp_root_nodes = <<>>
    /\ adp_hierarchy = [l \in 0..(HierarchySlots - 1) |-> None]
    /\ adp_node_id = 0
    /\ HpIdle /\ SrIdle /\ ErIdle /\ HrIdle /\ PlIdle /\ ApiIdle /\ CcIdle /\ StIdle /\ E2EIdle
    /\ PdfIdle /\ RuIdle /\ WkIdle

\* SimpleHierarchicalRetriever.__init__
InitSR ==
    /\ component = "retriever"
    /\ SrIdle
    /\ HpIdle /\ AdpIdle /\ ErIdle /\ HrIdle /\ PlIdle /\ ApiIdle /\ CcIdle /\ StIdle /\ E2EIdle
    /\ PdfIdle /\ RuIdle /\ WkIdle

\* EmbeddingRetriever.__init__
InitER ==
    /\ component = "flat"
    /\ ErIdle
    /\ HpIdle /\ AdpIdle /\ SrIdle /\ HrIdle /\ PlIdle /\ ApiIdle /\ CcIdle /\ StIdle /\ E2EIdle
    /\ PdfIdle /\ RuIdle /\ WkIdle

\* HierarchicalRetriever.__init__
InitHR ==
    /\ component = "hybrid"
    /\ HrIdle
    /\ HpIdle /\ AdpIdle /\ SrIdle /\ ErIdle /\ PlIdle /\ ApiIdle /\ CcIdle /\ StIdle /\ E2EIdle
    /\ PdfIdle /\ RuIdle /\ WkIdle

\* OdysseyHierarchicalPipeline.__init__
InitPL ==
    /\ component = "pipeline"
    /\ PlIdle
    /\ HpIdle /\ AdpIdle /\ SrIdle /\ ErIdle /\ HrIdle /\ ApiIdle /\ CcIdle /\ StIdle /\ E2EIdle
    /\ PdfIdle /\ RuIdle /\ WkIdle

\* the module body of main.py
InitAPI ==
    /\ component = "api"
    /\ ApiIdle
    /\ HpIdle /\ AdpIdle /\ SrIdle /\ ErIdle /\ HrIdle /\ PlIdle /\ CcIdle /\ StIdle /\ E2EIdle
    /\ PdfIdle /\ RuIdle /\ WkIdle

\* a fresh SimpleHierarchicalRetriever and a fresh HierarchicalRetriever
InitCC ==
    /\ component = "concurrent"
    /\ CcIdle
    /\ HpIdle /\ AdpIdle /\ SrIdle /\ ErIdle /\ HrIdle /\ PlIdle /\ ApiIdle /\ StIdle /\ E2EIdle
    /\ PdfIdle /\ RuIdle /\ WkIdle

\* a fresh SimpleHierarchicalRetriever and no files
InitST ==
    /\ component = "store"
    /\ SrIdle /\ StIdle /\ E2EIdle
    /\ PdfIdle /\ RuIdle /\ WkIdle
    /\ HpIdle /\ AdpIdle /\ ErIdle /\ HrIdle /\ PlIdle /\ ApiIdle /\ CcIdle

\* a fresh processor and a fresh SimpleHierarchicalRetriever
InitE2E ==
    /\ component = "endtoend"
    /\ E2EIdle
    /\ HpIdle /\ AdpIdle /\ SrIdle /\ ErIdle /\ HrIdle /\ PlIdle /\ ApiIdle /\ CcIdle
    /\ StIdle /\ PdfIdle /\ RuIdle /\ WkIdle

\* AdvancedDataProcessor.__init__ with a PDF
InitPDF ==
    /\ component = "pdf"
    /\ PdfIdle /\ RuIdle /\ WkIdle
    /\ HpIdle /\ AdpIdle /\ SrIdle /\ ErIdle /\ HrIdle /\ PlIdle /\ ApiIdle /\ CcIdle
    /\ StIdle /\ E2EIdle

\* a fresh HTMLHierarchicalProcessor
InitRU ==
    /\ component = "rollup"
    /\ RuIdle /\ WkIdle
    /\ HpIdle /\ AdpIdle /\ SrIdle /\ ErIdle /\ HrIdle /\ PlIdle /\ ApiIdle /\ CcIdle
    /\ StIdle /\ E2EIdle /\ PdfIdle /\ WkIdle

\* a HierarchicalRetriever before any chunk set is given to it
InitWK ==
    /\ component = "walk"
    /\ WkIdle
    /\ HpIdle /\ AdpIdle /\ SrIdle /\ ErIdle /\ HrIdle /\ PlIdle /\ ApiIdle /\ CcIdle
    /\ StIdle /\ E2EIdle /\ PdfIdle /\ RuIdle

NextHP == StartProcessHtml \/ ProcessElement \/ FinishProcessHtml \/ CreateSemanticChunks

NextADP == AdpProcessElement \/ AdpTextNode

NextSR ==
    \/ CreateEmbeddings
    \/ RetrieveWithContext
    \/ RetrieveWithContextChildrenFail
    \/ RetrieveUninitialized
    \/ ReturnResults

NextER == ErCreateEmbeddings \/ ErRetrieve \/ ErRetrieveUninitialized \/ ErReturn

NextHR ==
    \/ CreateMultiLevelEmbeddings
    \/ RetrieveOneWay
    \/ RetrieveHybrid
    \/ RetrieveHybridNoQuota
    \/ HrReturn

SpecHP == InitHP /\ [][NextHP]_vars

SpecADP == InitADP /\ [][NextADP]_vars

SpecSR == InitSR /\ [][NextSR]_vars

SpecHR == InitHR /\ [][NextHR]_vars

SpecER == InitER /\ [][NextER]_vars

NextAPI ==
    \/ InitializeRejected
    \/ InitializeSystem
    \/ AskUninitialized
    \/ AskQuestion
    \/ ResetSystem
    \/ SendResponse

SpecAPI == InitAPI /\ [][NextAPI]_vars

NextCC ==
    \/ BuildForThreads
    \/ HrBuildForThreads
    \/ \E t \in Threads :
        \/ QueryStart(t)
        \/ QueryIterate(t)
        \/ QueryReturn(t)
        \/ QueryDone(t)
        \/ HrQueryStart(t)
        \/ HrQuerySecond(t)
        \/ HrQueryReturn(t)
        \/ HrQueryDone(t)

SpecCC == InitCC /\ [][NextCC]_vars

NextST ==
    \/ CreateEmbeddings
    \/ SaveIndex
    \/ ProbeOriginal
    \/ LoadIndex
    \/ ProbeReloaded
    \/ UseReloaded

SpecST == InitST /\ [][NextST]_vars

NextE2E == IndexDocument \/ RetrieveFromDocument \/ ReturnFromDocument

SpecE2E == InitE2E /\ [][NextE2E]_vars

\* the three retrievers
InitRetrievers == InitSR \/ InitER \/ InitHR
NextRetrievers == NextSR \/ NextER \/ NextHR
SpecRetrievers == InitRetrievers /\ [][NextRetrievers]_vars

NextPL == AnswerQuestion \/ GetRetrievalKwargs \/ PlReturn

SpecPL == InitPL /\ [][NextPL]_vars

\* both hierarchy builders
NextPDF ==
    \/ StartProcessPdf
    \/ PdfHeaderLine
    \/ PdfTextLine
    \/ PdfEndOfPage
    \/ FinishProcessPdf

\* the builds of both processors, HTML and PDF
InitBuilds == InitHP \/ InitADP \/ InitPDF
NextBuilds == NextHP \/ NextADP \/ NextPDF
SpecBuilds == InitBuilds /\ [][NextBuilds]_vars

NextRU == CollectSubtreeText \/ RollupReturn

SpecRU == InitRU /\ [][NextRU]_vars

NextWK == EnrichStart \/ WalkStep \/ WalkForever \/ WalkExit \/ EnrichReturn

\* the walk is a loop of one thread: while the call is running, the loop goes on
SpecWK ==
    InitWK /\ [][NextWK]_vars
    /\ WF_vars(WalkStep) /\ WF_vars(WalkForever) /\ WF_vars(WalkExit)

InitTree == InitHP \/ InitADP
NextTree == NextHP \/ NextADP
SpecTree == InitTree /\ [][NextTree]_vars

\* ================================================================ claims

\* ---------------------------------------------------------------- C1
TreeInvariantOf(reg) ==
    \A i \in 1..Len(reg) :
        reg[i].parent_id # None =>
            /\ HasNode(reg, reg[i].parent_id)
            /\ NodeOf(reg, reg[i].parent_id).level < reg[i].level

\* C1: in every state of a build, intermediate or final, of either
\* HTMLHierarchicalProcessor.process_html or AdvancedDataProcessor.process_html,
\* every registered node with a parent_id has that parent in the registry and
\* the parent's level is strictly less than the node's level.
C1_TreeInvariant == TreeInvariantOf(nodes) /\ TreeInvariantOf(adp_nodes)

\* a finished build holding a paragraph under a subsection under a section under a book
C1_Witness ==
    /\ hp_pc = "done"
    /\ \E i, j, k \in 1..Len(nodes) :
        /\ nodes[i].level = 4 /\ nodes[i].parent_id = nodes[j].id
        /\ nodes[j].level = 3 /\ nodes[j].parent_id = nodes[k].id
        /\ nodes[k].level = 2 /\ nodes[k].parent_id # None

\* ---------------------------------------------------------------- C2
\* ids of the level-1 nodes of a registry, in registry (creation) order
RECURSIVE Level1Ids(_, _)
Level1Ids(reg, i) ==
    IF i > Len(reg) THEN <<>>
    ELSE (IF reg[i].level = 1 THEN <<reg[i].id>> ELSE <<>>) \o Level1Ids(reg, i + 1)

\* C2: during and after the first process_html run on a fresh processor,
\* root_nodes is exactly the list of ids of the level-1 nodes, each once, in
\* creation order, and every root is a level-1 node without a parent.
C2_RootCompleteness ==
    (component = "html" /\ runs = 1) =>
        /\ root_nodes = Level1Ids(nodes, 1)
        /\ \A i, j \in 1..Len(root_nodes) : root_nodes[i] = root_nodes[j] => i = j
        /\ \A i \in 1..Len(root_nodes) :
            /\ HasNode(nodes, root_nodes[i])
            /\ NodeOf(nodes, root_nodes[i]).level = 1
            /\ NodeOf(nodes, root_nodes[i]).parent_id = None

\* a finished first run with two books and other nodes between them
C2_Witness ==
    /\ runs = 1 /\ hp_pc = "done"
    /\ Len(root_nodes) = 2
    /\ Len(nodes) = 4
    /\ nodes[1].level = 1 /\ nodes[4].level = 1

\* ---------------------------------------------------------------- C3
\* C3: the list create_semantic_chunks returns holds no chunk_id twice, and
\* for every derived candidate the returned chunk of the same chunk_id has a
\* text at least as long (so a discarded duplicate is never the longer one).
C3_ChunkUniqueness ==
    /\ \A i, j \in 1..Len(chunks) : chunks[i].chunk_id = chunks[j].chunk_id => i = j
    /\ \A c \in 1..Len(candidates) :
        \E i \in 1..Len(chunks) :
            /\ chunks[i].chunk_id = candidates[c].chunk_id
            /\ CharLen(chunks[i].text) >= CharLen(candidates[c].text)

\* two candidates of one chunk_id were derived and one of them was discarded
C3_Witness ==
    /\ \E a, b \in 1..Len(candidates) :
        a # b /\ candidates[a].chunk_id = candidates[b].chunk_id
    /\ Len(chunks) >= 2
    /\ Len(chunks) < Len(candidates)

\* ---------------------------------------------------------------- C4
\* C4: the list retrieve_with_context returns is ordered by non-increasing
\* similarity, so its first entry (the first source answer_question reports) has
\* the highest similarity; it holds at most k results and no chunk_id twice.
C4_SortedBoundedUnique ==
    /\ \A i \in 1..(Len(results) - 1) : results[i].similarity >= results[i + 1].similarity
    /\ \A i \in 1..Len(results) : results[1].similarity >= results[i].similarity
    /\ Len(results) <= sr_call.k
    /\ \A i, j \in 1..Len(results) : results[i].chunk_id = results[j].chunk_id => i = j

\* a call with a child appended that collected its k results out of order
C4_Witness ==
    /\ sr_call # NoCall
    /\ sr_outcome = "returned"
    /\ sr_call.include_children
    /\ \E i \in 1..(Len(Collected(sr_call)) - 1) :
        Collected(sr_call)[i].similarity < Collected(sr_call)[i + 1].similarity
    /\ Len(results) = sr_call.k

\* ---------------------------------------------------------------- C5
\* C5 as claimed: every returned result has similarity >= the call's threshold.
C5_AllAtLeastThreshold ==
    \A i \in 1..Len(results) : results[i].similarity >= sr_call.threshold

\* C5 as amended: a returned result has similarity >= the call's threshold,
\* unless children were requested and it is a child of a collected hit that is
\* at or above the threshold; then its similarity is >= 0.8 times the threshold.
C5_ThresholdOrChildThreshold ==
    \A i \in 1..Len(results) :
        \/ results[i].similarity >= sr_call.threshold
        \/ /\ sr_call.include_children
           /\ 10 * results[i].similarity >= 8 * sr_call.threshold
           /\ \E p \in 1..Len(Collected(sr_call)) :
               /\ Collected(sr_call)[p].similarity >= sr_call.threshold
               /\ results[i].chunk_id \in
                      Range(MapGet(child_map, Collected(sr_call)[p].chunk_id, <<>>))

\* a returned child result below the call's threshold
C5_Witness ==
    /\ sr_call # NoCall
    /\ sr_call.threshold > 0
    /\ \E i \in 1..Len(results) :
        /\ results[i].similarity < sr_call.threshold
        /\ results[i].parent_text # None

\* ---------------------------------------------------------------- C6
\* C6: for the index, query, search result, k and flags of a call, every
\* threshold at or above the call's threshold yields at most as many results
\* as the call returned.
C6_ThresholdMonotone ==
    (sr_call # NoCall /\ sr_outcome = "returned") =>
        \A t2 \in Thresholds :
            t2 >= sr_call.threshold =>
                Len(Retrieved([sr_call EXCEPT !.threshold = t2])) <= Len(results)

\* a call with children appended, and a higher threshold that returns fewer results
C6_Witness ==
    /\ sr_call # NoCall
    /\ sr_outcome = "returned"
    /\ sr_call.include_children
    /\ \E i \in 1..Len(Collected(sr_call)) :
        Collected(sr_call)[i].similarity < sr_call.threshold
    /\ \E t2 \in Thresholds :
        /\ t2 > sr_call.threshold
        /\ Len(Retrieved([sr_call EXCEPT !.threshold = t2])) < Len(results)
        /\ Len(Retrieved([sr_call EXCEPT !.threshold = t2])) > 0

\* ---------------------------------------------------------------- C7
\* chunk_ids of a list of (chunk, similarity) pairs
CandidateIds(list) == {list[i].chunk.chunk_id : i \in 1..Len(list)}

\* C7: the results of a hybrid hierarchical_retrieve call are each a candidate,
\* with its score, of the top-down or the bottom-up list that was merged; no
\* chunk_id occurs twice; scores are non-increasing; among results of equal
\* score no bottom-up-only result precedes a top-down candidate; and there are
\* at most k results.
C7_HybridMerge ==
    (hr_call # NoCall /\ hr_call.strategy = "hybrid" /\ hr_call.outcome = "returned") =>
        LET both == hr_call.top_down \o hr_call.bottom_up
        IN  /\ \A i \in 1..Len(hr_results) :
                \E c \in 1..Len(both) :
                    /\ both[c].chunk.chunk_id = hr_results[i].chunk_id
                    /\ both[c].similarity = hr_results[i].similarity
            /\ \A i, j \in 1..Len(hr_results) :
                hr_results[i].chunk_id = hr_results[j].chunk_id => i = j
            /\ \A i \in 1..(Len(hr_results) - 1) :
                hr_results[i].similarity >= hr_results[i + 1].similarity
            /\ \A i, j \in 1..Len(hr_results) :
                (/\ i < j
                 /\ hr_results[i].similarity = hr_results[j].similarity
                 /\ hr_results[j].chunk_id \in CandidateIds(hr_call.top_down))
                    => hr_results[i].chunk_id \in CandidateIds(hr_call.top_down)
            /\ Len(hr_results) <= hr_call.k

\* a hybrid call whose two lists share a chunk and whose results hold a
\* top-down candidate tied with a bottom-up-only one
C7_Witness ==
    /\ hr_call # NoCall
    /\ hr_call.strategy = "hybrid"
    /\ CandidateIds(hr_call.top_down) \cap CandidateIds(hr_call.bottom_up) # {}
    /\ \E i, j \in 1..Len(hr_results) :
        /\ i < j
        /\ hr_results[i].similarity = hr_results[j].similarity
        /\ hr_results[i].chunk_id \in CandidateIds(hr_call.top_down)
        /\ hr_results[j].chunk_id \notin CandidateIds(hr_call.top_down)
        /\ hr_results[j].chunk_id \in CandidateIds(hr_call.bottom_up)

\* ---------------------------------------------------------------- C8
\* a member of the set is a substring of the lower-cased question
AnyIn(indicators, question_lower) == \E x \in indicators : Contains(x, question_lower)

\* the type the priority order gives a lower-cased question
TypeByPriority(question_lower) ==
    IF AnyIn(odyssey_characters, question_lower) THEN "character"
    ELSE IF AnyIn(overview_indicators, question_lower) THEN "overview"
    ELSE IF AnyIn(detail_indicators, question_lower) THEN "detail"
    ELSE IF AnyIn(book_indicators, question_lower) THEN "structural"
    ELSE "general"

\* C8: the type answer_question obtained from _analyze_question is the only
\* type the call can return for the question, and it is character if a
\* character name is a substring of the lower-cased question; otherwise
\* overview if an overview phrase is; otherwise detail if a detail phrase is;
\* otherwise structural if a structural keyword is; otherwise general.
C8_PriorityOrder ==
    pl_pc = "answered" =>
        /\ \A r \in _analyze_question(pl_question) : r[1] = pl_question_type
        /\ pl_question_type = TypeByPriority(lower(pl_question))

\* a question with upper-case letters that holds an overview phrase and a
\* detail phrase was analysed as overview
C8_Witness ==
    /\ pl_pc = "answered"
    /\ AnyIn(overview_indicators, lower(pl_question))
    /\ AnyIn(detail_indicators, lower(pl_question))
    /\ pl_question_type = "overview"
    /\ pl_question # lower(pl_question)

\* ---------------------------------------------------------------- C9
\* the question "Summarize Book 1"
SummarizeBook1 == JoinPhrases(<<1, 2>>)

\* C9: for the question "Summarize Book 1" _analyze_question returns overview.
C9_SummarizeBook1IsOverview ==
    (pl_pc = "answered" /\ pl_question = SummarizeBook1) => pl_question_type = "overview"

\* ---------------------------------------------------------------- C10
\* the row of the table for a type: <<k, 10 * threshold, include_parent, include_children>>
TableRow(type, k, threshold) ==
    CASE type = "overview"   -> <<IF k < 3 THEN k ELSE 3, 9 * threshold, TRUE, FALSE>>
      [] type = "detail"     -> <<IF k < 7 THEN k ELSE 7, 10 * threshold, TRUE, TRUE>>
      [] type = "character"  -> <<k, 10 * threshold, TRUE, FALSE>>
      [] type = "structural" -> <<k, 8 * threshold, FALSE, TRUE>>
      [] OTHER               -> <<k, 10 * threshold, TRUE, FALSE>>

\* the dict returned is the table row of the type
IsTableRow ==
    <<retrieval_kwargs.k, 10 * retrieval_kwargs.threshold,
      retrieval_kwargs.include_parent, retrieval_kwargs.include_children>>
        = TableRow(pl_question_type, pl_args.k, pl_args.threshold)

C11_UninitializedSearchRaises ==
    /\ (sr_call # NoCall /\ index = None) => sr_outcome = "raised"
    /\ (er_call # NoCall /\ er_index = None) => er_call.outcome = "raised"
    /\ (hr_call # NoCall /\ hr_chunks = <<>> /\ level_indices = EmptyMap)
           => hr_call.outcome = "raised"

\* ---------------------------------------------------------------- C12
\* the /ask request being answered retrieved nothing
NothingRetrieved ==
    /\ api_request # None
    /\ api_request[1].endpoint = "/ask"
    /\ _pipeline # None
    /\ results = <<>>

\* C12: a /ask request for which no candidate clears the threshold is answered
\* with a successful response with an empty sources list, on the adaptive path
\* and on the explicit-strategy path, and never with the error response.
C12_EmptyResultIsSuccess ==
    NothingRetrieved =>
        /\ api_response[1].status = StatusOk
        /\ api_response[1].sources = <<>>
        /\ api_response[1].chunks_retrieved = 0

\* ---------------------------------------------------------------- C13
\* C13: a retrieve_with_context call on a built index that asks for children
\* returns a list whatever happens while the children of a hit are re-embedded
\* and re-scored: the call is not aborted and the hits collected stay in the
\* results.
C13_ChildFailureDoesNotAbort ==
    (sr_call # NoCall /\ index # None /\ EncodesChildren(sr_call)) =>
        /\ sr_outcome = "returned"
        /\ results = Retrieved(sr_call)

\* what hierarchical_retrieve can return for the call a when no other call runs
HrAlone(a) ==
    LET quota == IF a.strategy = "hybrid" THEN a.k \div 2 ELSE a.k
    IN  {HrEnriched(a.strategy,
                    IF a.strategy = "bottom_up" THEN <<>> ELSE top_down,
                    IF a.strategy = "top_down" THEN <<>> ELSE bottom_up, a.k) :
            top_down \in top_down_retrieval(a.sim, quota, a.threshold),
            bottom_up \in bottom_up_retrieval(a.sim, quota, a.threshold)}

\* C14: however the steps of concurrent retrieve_with_context and
\* hierarchical_retrieve calls interleave, the index, the chunk list, chunk_map,
\* parent_map, child_map and the level indices stay as the build left them (a
\* lookup of the children of a childless chunk adds no child_map entry), and
\* every call returns what it returns when it runs alone.
C14_QueriesLeaveBuiltStateAlone ==
    /\ built # None => BuiltState = built[1]
    /\ DOMAIN child_map = DOMAIN BuildChildMap(sr_chunks, 1, EmptyMap)
    /\ \A t \in Threads :
        /\ sr_threads[t].pc = "returned" => sr_threads[t].returned = Retrieved(sr_threads[t].a)
        /\ hr_threads[t].pc = "returned" => hr_threads[t].returned \in HrAlone(hr_threads[t].a)

\* two calls are in progress at once, one of them past an iteration that looked
\* up the children of a childless chunk, and a third call made while another
\* was running has returned results
C14_Witness ==
    /\ sr_threads["t1"].pc = "loop" /\ sr_threads["t1"].i > 1
    /\ \E j \in 1..Len(sr_threads["t1"].res) :
        /\ sr_threads["t1"].res[j].chunk_id \notin DOMAIN child_map
        /\ sr_threads["t1"].res[j].child_count = 0
    /\ sr_threads["t2"].pc = "returned"
    /\ sr_threads["t2"].returned # <<>>
    /\ sr_threads["t2"].a # sr_threads["t1"].a
    /\ sr_threads["t2"].a.include_children

\* C15: after any sequence of create_embeddings and load_index calls,
\* parent_map maps a chunk to p exactly when it is a current chunk whose
\* parent_id is p, and child_map[p] lists exactly the current chunks whose
\* parent_id is p, once each, in chunk-list order.
C15_MapsAgreeWithChunks ==
    /\ parent_map = BuildParentMap(sr_chunks, 1, EmptyMap)
    /\ child_map = BuildChildMap(sr_chunks, 1, EmptyMap)

\* C16: a retriever reloaded from what save_index wrote has the parent_map and
\* child_map of the retriever saved, whether load_index read the snapshot or
\* rebuilt the maps from the chunks, and returns for the probe query what the
\* saved retriever returned.
C16_SaveLoadRoundTrip ==
    /\ st_pc \in {"reloaded", "compared"} =>
        /\ parent_map = saved_maps[1].parent_map
        /\ child_map = saved_maps[1].child_map
    /\ st_pc = "compared" => actual[1] = probe[1].results

\* P2 of the toy document: the third element, node 2
ToyP2 == <<"para", 2>>

\* C17: on the toy document, retrieve_with_context with k=1, threshold=0.1 and
\* include_parent=True returns exactly one result, whose chunk_id is the node id
\* of P2 and whose parent_text is not None and contains "BOOK I".
C17_ToyDocumentEndToEnd ==
    (/\ document = <<ToyDocument>>
     /\ sr_call # NoCall
     /\ sr_call.k = 1 /\ sr_call.threshold = 100 /\ sr_call.include_parent) =>
        /\ sr_outcome = "returned"
        /\ Len(results) = 1
        /\ results[1].chunk_id = ToyP2
        /\ "of" \in DOMAIN results[1].parent_text
        /\ \E i \in 1..Len(results[1].parent_text.of) :
            results[1].parent_text.of[i].head = "BOOK I"

\* the place of a chunk id in the order of derivation
FirstDerived(id) ==
    CHOOSE i \in 1..Len(candidates) :
        /\ candidates[i].chunk_id = id
        /\ \A j \in 1..(i - 1) : candidates[j].chunk_id # id

\* C18: the list create_semantic_chunks returns is in ascending order of level,
\* and chunks of the same level are in the order in which they were derived.
C18_AscendingLevelStable ==
    \A i, j \in 1..Len(chunks) :
        i < j =>
            /\ chunks[i].level <= chunks[j].level
            /\ chunks[i].level = chunks[j].level =>
                   FirstDerived(chunks[i].chunk_id) < FirstDerived(chunks[j].chunk_id)

\* the list returned holds a book chunk, a section chunk and two paragraph chunks
C18_Witness ==
    /\ \E i, j \in 1..Len(chunks) :
        /\ i < j
        /\ chunks[i].level = 4 /\ chunks[j].level = 4
    /\ \E i, j \in 1..Len(chunks) : chunks[i].level = 1 /\ chunks[j].level = 2

\* the nodes a step has created: registered with the counter values the step used
CreatedBy(reg, from, to) ==
    {reg[i] : i \in {j \in 1..Len(reg) : reg[j].id[2] >= from /\ reg[j].id[2] < to}}

\* a step of HTMLHierarchicalProcessor.process_html that creates a book node
\* leaves no current section or subsection, and one that creates a section node
\* leaves no current subsection
HpClearsDeeper ==
    \A node \in CreatedBy(nodes', node_id, node_id') :
        /\ node.level <= 1 => current_hierarchy'.section = None
        /\ node.level <= 2 => current_hierarchy'.subsection = None

\* a step of either build of AdvancedDataProcessor that creates a node of level
\* L for a header leaves every slot below L empty
AdpClearsDeeper ==
    /\ \A node \in CreatedBy(adp_nodes', adp_node_id, adp_node_id') :
        node.type = "structural" =>
            \A l \in (node.level + 1)..(HierarchySlots - 1) : adp_hierarchy'[l] = None
    /\ \A node \in CreatedBy(pdf_nodes', pdf_node_id, pdf_node_id') :
        node.type = "section" =>
            \A l \in (node.level + 1)..(HierarchySlots - 1) : pdf_hierarchy'[l] = None

\* no node has a parent that was created before a header of a level above the
\* parent's: reg lists the nodes in the order of their creation
NoParentFromBefore(reg) ==
    \A i, m, j \in 1..Len(reg) :
        (i < m /\ m < j /\ reg[j].parent_id = reg[i].id) => reg[m].level >= reg[i].level

\* C19: a step that creates a node of level L clears, in that step, every
\* remembered current node of a deeper level; so no node created after a book
\* header has as parent a section or subsection created before that header, and
\* no node created after a section header has as parent a subsection created
\* before it.  The level stack of AdvancedDataProcessor behaves the same way.
C19_DeeperLevelsCleared ==
    /\ [][HpClearsDeeper /\ AdpClearsDeeper]_vars
    /\ [](/\ NoParentFromBefore(nodes)
          /\ NoParentFromBefore(adp_nodes)
          /\ NoParentFromBefore(pdf_nodes))

\* a section was current when a book header came, and a paragraph created after
\* that header is a child of the new book
C19_Witness ==
    \E i, m, j \in 1..Len(nodes) :
        /\ i < m /\ m < j
        /\ nodes[i].type = "section"
        /\ nodes[m].type = "book"
        /\ nodes[j].type = "paragraph"
        /\ nodes[j].parent_id = nodes[m].id
        /\ current_hierarchy.section = None

\* the level declared for a text by the first rule that matches it, book rules
\* first; 0 when no rule matches
DeclaredLevel(text) ==
    IF _identify_book_chapter(text).match # None
    THEN _identify_book_chapter(text).level
    ELSE _identify_section(text).level

\* C20: the node created for a text that matches a rule of book_patterns or
\* section_patterns has the level declared by the first matching rule, the
\* capital-letter-plus-dot rule, which declares 3, included.
C20_LevelOfFirstMatchingRule ==
    \A i \in 1..Len(nodes) :
        DeclaredLevel(nodes[i].text) # 0 => nodes[i].level = DeclaredLevel(nodes[i].text)

\* the number of times id occurs in the list
Occurrences(list, id) == Cardinality({k \in 1..Len(list) : list[k] = id})

\* C21: after process_html on a fresh processor, n.parent_id = p exactly when
\* n.id occurs in p's children_ids; it occurs there once, no id occurs in two
\* children_ids lists, and every children_ids list is in creation order.
C21_ParentChildMirror ==
    (runs = 1 /\ hp_pc = "done") =>
        \A i, j \in 1..Len(nodes) :
            /\ (nodes[i].parent_id = nodes[j].id) <=>
                   Occurrences(nodes[j].children_ids, nodes[i].id) > 0
            /\ Occurrences(nodes[j].children_ids, nodes[i].id) <= 1
            /\ \A a, b \in 1..Len(nodes[j].children_ids) :
                   a < b => nodes[j].children_ids[a][2] < nodes[j].children_ids[b][2]

\* a first build has finished with a section under a book and two paragraphs
\* under the section
C21_Witness ==
    /\ runs = 1 /\ hp_pc = "done"
    /\ \E i, j \in 1..Len(nodes) :
        /\ nodes[j].type = "book"
        /\ nodes[i].type = "section"
        /\ nodes[i].parent_id = nodes[j].id
        /\ Len(nodes[i].children_ids) = 2

\* the text is content: no book header and no section header
IsContent(text) ==
    /\ _identify_book_chapter(text).match = None
    /\ ~(_identify_section(text).match # None /\ text.words < 20)

\* the loop of process_html takes a content element while no book, section or
\* subsection is current
OrphanContentStep ==
    /\ hp_pc = "building"
    /\ pos' = pos + 1
    /\ current_hierarchy = NoHierarchy
    /\ IsContent(doc[pos + 1])

\* C22: a content segment that arrives while no book, section or subsection is
\* current creates no node and leaves the registry, the root list and the
\* current-hierarchy trackers unchanged; so every level-3 and level-4 node of
\* the registry has a parent.
C22_OrphanContentSkipped ==
    /\ [][OrphanContentStep =>
            /\ nodes' = nodes
            /\ root_nodes' = root_nodes
            /\ current_hierarchy' = current_hierarchy
            /\ node_id' = node_id]_vars
    /\ [](\A i \in 1..Len(nodes) :
            nodes[i].level \in {3, 4} => nodes[i].parent_id # None)

\* a paragraph-sized text came first in the document and was passed over; a
\* later book and paragraph were registered
C22_Witness ==
    /\ runs = 1
    /\ pos >= 3
    /\ IsContent(doc[1]) /\ doc[1].words > 10
    /\ Len(nodes) = 2
    /\ nodes[1].type = "book"
    /\ nodes[1].id = <<"book", 0>>
    /\ nodes[2].type = "paragraph"

\* the rollup of a node in which a child is left out whenever its assembled
\* text would take the word count past the budget, from child i on
RECURSIVE FittingChildren(_, _, _, _, _, _, _)
FittingChildren(reg, children, i, texts, current_words, max_depth, budget) ==
    IF i > Len(children) THEN texts
    ELSE LET child_text == _collect_subtree_text(reg, children[i], max_depth - 1,
                                                 budget - current_words)
         IN  IF child_text # <<>> /\ current_words + WordCount(child_text) <= budget
             THEN FittingChildren(reg, children, i + 1, texts \o child_text,
                                  current_words + WordCount(child_text), max_depth, budget)
             ELSE FittingChildren(reg, children, i + 1, texts, current_words,
                                  max_depth, budget)

\* C23: in the rollup _collect_subtree_text assembles, a child whose assembled
\* text would take the accumulated word count past max_words is left out,
\* whole, and the later children that still fit are taken.
C23_ChildOverBudgetSkipped ==
    rollup # None =>
        LET r == rollup[1]
            node == NodeOf(r.nodes, r.node_id)
        IN  r.text = FittingChildren(r.nodes, Prefix(node.children_ids, MaxRollupChildren),
                                     1, <<node.text>>, node.text.words, r.max_depth,
                                     r.max_words)

\* ---------------------------------------------------------------- C24
\* the chunks that are among the k best hits of the flat index at or above the
\* threshold whichever way the index orders equal scores: fewer than k other
\* chunks score as high
BestHits(a) ==
    {id \in ChunkIds(sr_chunks) :
        /\ a.sim[id] >= a.threshold
        /\ Cardinality({o \in ChunkIds(sr_chunks) \ {id} : a.sim[o] >= a.sim[id]}) < a.k}

\* C24: with include_children, the k best distinct hits of the flat index at or
\* above the threshold are all in the returned list; the children appended come
\* on top of them and never push one of them out.
C24_ChildrenNeverDisplaceHits ==
    (sr_call # NoCall /\ sr_outcome = "returned" /\ sr_call.include_children) =>
        \A id \in BestHits(sr_call) :
            \E i \in 1..Len(results) : results[i].chunk_id = id

\* ---------------------------------------------------------------- C25
\* the node registry of the document the retriever's chunks were derived from
NodesOfIndexedDocument ==
    LET d == CHOOSE d \in RetrieverDocs : SemanticChunksOf(d) = sr_chunks
    IN  ProcessAll(BuildState(<<>>, <<>>, NoHierarchy, 0), d, 1).nodes

\* the nearest ancestor of node id, from `current` upwards, that has a chunk
RECURSIVE NearestChunkAncestor(_, _)
NearestChunkAncestor(reg, current) ==
    IF current = None \/ ~HasNode(reg, current) THEN None
    ELSE IF current \in DOMAIN chunk_map THEN current
    ELSE NearestChunkAncestor(reg, NodeOf(reg, current).parent_id)

\* C25: with include_parent, every primary result with an ancestor that has a
\* chunk carries the truncated text of its nearest such ancestor as parent_text
\* (without include_children every result is a primary one).
C25_ParentTextFromNearestAncestor ==
    (/\ sr_call # NoCall /\ sr_outcome = "returned"
     /\ sr_call.include_parent /\ ~sr_call.include_children) =>
        \A i \in 1..Len(results) :
            LET reg == NodesOfIndexedDocument
                ancestor == NearestChunkAncestor(reg,
                                NodeOf(reg, results[i].chunk_id).parent_id)
            IN  ancestor # None =>
                    results[i].parent_text =
                        Preview(chunk_map[ancestor].text, ParentPreviewLen)

\* ---------------------------------------------------------------- C26
\* C26: the ancestor walk of enrich_with_hierarchy ends for every chunk set,
\* one with a cycle of parent_id links included, and when it has ended depth
\* is the number of ancestor chunks collected in parent_chunks.
C26_WalkTerminates ==
    /\ (walk # None) ~> (walk # None /\ walk[1].pc = "returned")
    /\ [](walk # None /\ walk[1].pc = "returned" =>
            walk[1].depth = Len(walk[1].parent_chunks))

\* ---------------------------------------------------------------- C27
\* every paragraph node of the registry that has a parent in the registry is
\* one of that parent's children_ids
ParagraphsAreChildren(reg) ==
    \A i \in 1..Len(reg) :
        (reg[i].type = "paragraph" /\ reg[i].parent_id # None
            /\ HasNode(reg, reg[i].parent_id)) =>
                reg[i].id \in Range(NodeOf(reg, reg[i].parent_id).children_ids)

\* C27: in AdvancedDataProcessor, process_html and process_pdf, every paragraph
\* node created with a parent_id is appended to that parent's children_ids (so
\* that the rollup of a root includes the paragraphs under it).
C27_ParagraphsAppendedToParent ==
    /\ ParagraphsAreChildren(adp_nodes)
    /\ ParagraphsAreChildren(pdf_nodes)

\* ---------------------------------------------------------------- C28
\* C28: in AdvancedDataProcessor.process_html every structural tag of the
\* tag-to-level table with text becomes a node at the table's level and
\* nothing is raised: the level indexing the level stack is within its bounds.
C28_StructuralTagsNeverRaise ==
    /\ [][\A tag \in StructuralTags :
            AdpStructural(tag) =>
                /\ adp_pc' = "running"
                /\ Len(adp_nodes') = Len(adp_nodes) + 1
                /\ adp_nodes'[Len(adp_nodes')].level = tag_to_level[tag]
                /\ tag_to_level[tag] \in DOMAIN adp_hierarchy]_vars
    /\ [](adp_pc # "raised")

\* ---------------------------------------------------------------- C29
\* C29: a hybrid hierarchical_retrieve gives top-down and bottom-up a quota of
\* k // 2 each and returns a list of at most 2 * (k // 2) results: never k
\* results for an odd k, and the empty list for k = 1 whatever is indexed.
C29_HybridQuota ==
    (hr_call # NoCall /\ hr_call.strategy = "hybrid") =>
        /\ hr_call.outcome = "returned"
        /\ Len(hr_call.top_down) <= hr_call.k \div 2
        /\ Len(hr_call.bottom_up) <= hr_call.k \div 2
        /\ Len(hr_results) <= 2 * (hr_call.k \div 2)
        /\ hr_call.k % 2 = 1 => Len(hr_results) # hr_call.k
        /\ hr_call.k = 1 => hr_results = <<>>

\* ---------------------------------------------------------------- C30
\* a request to the endpoint is handled in this step
Handles(endpoint) ==
    /\ api_request = None
    /\ api_request' # None
    /\ api_request'[1].endpoint = endpoint

\* C30: no pipeline is installed at the start; a successful /initialize installs
\* one, /reset always leaves none, and nothing else changes it: a failed
\* /initialize leaves the pipeline (or its absence) and its retriever as they
\* were.  /ask without a pipeline is answered with status 400 and changes
\* nothing; any other answer to /ask comes from an installed pipeline.  So /ask
\* is answered from a pipeline only if some /initialize succeeded since the
\* last /reset.
C30_PipelineLifecycle ==
    /\ _pipeline = None
    /\ [][/\ (Handles("/ask") /\ _pipeline = None) =>
               /\ api_response'[1].status = StatusBadRequest
               /\ UNCHANGED <<_pipeline, srVars>>
          /\ (Handles("/ask") /\ api_response'[1].status # StatusBadRequest) =>
               /\ _pipeline # None
               /\ _pipeline' = _pipeline
          /\ Handles("/reset") => _pipeline' = None
          /\ (Handles("/initialize") /\ api_response'[1].status # StatusOk) =>
               UNCHANGED <<_pipeline, srVars>>
          /\ (Handles("/initialize") /\ api_response'[1].status = StatusOk) =>
               _pipeline' # None
          /\ ~(Handles("/initialize") \/ Handles("/reset")) =>
               _pipeline' = _pipeline]_vars

\* a /initialize that failed while a pipeline was installed: the pipeline is
\* still there
C30_Witness ==
    /\ api_request # None
    /\ api_request[1].endpoint = "/initialize"
    /\ api_response[1].status = StatusServerError
    /\ _pipeline # None
====
